---- MODULE Spec2Model ----
(***************************************************************************)
(* Event-driven parse state machines of remo-api: read_devices             *)
(* (src/src/device.rs) and read_appliances (src/src/appliances.rs), with   *)
(* the key resolver, the scalar converters and the callback protocol.      *)
(* A Rust &str is a sequence of characters, each character a one-letter    *)
(* string (a character outside ASCII is written "U+xxxx").                 *)
(***************************************************************************)
EXTENDS Integers, Sequences, FiniteSets, TLC

(* Wire names of the API, as character sequences (a Rust &str). *)
W_name == <<"n", "a", "m", "e">>
W_id == <<"i", "d">>
W_created_at == <<"c", "r", "e", "a", "t", "e", "d", "_", "a", "t">>
W_updated_at == <<"u", "p", "d", "a", "t", "e", "d", "_", "a", "t">>
W_mac_address == <<"m", "a", "c", "_", "a", "d", "d", "r", "e", "s", "s">>
W_bt_mac_address == <<"b", "t", "_", "m", "a", "c", "_", "a", "d", "d", "r", "e", "s", "s">>
W_serial_number == <<"s", "e", "r", "i", "a", "l", "_", "n", "u", "m", "b", "e", "r">>
W_firmware_version == <<"f", "i", "r", "m", "w", "a", "r", "e", "_", "v", "e", "r", "s", "i", "o", "n">>
W_temperature_offset == <<"t", "e", "m", "p", "e", "r", "a", "t", "u", "r", "e", "_", "o", "f", "f", "s", "e", "t">>
W_humidity_offset == <<"h", "u", "m", "i", "d", "i", "t", "y", "_", "o", "f", "f", "s", "e", "t">>
W_users == <<"u", "s", "e", "r", "s">>
W_nickname == <<"n", "i", "c", "k", "n", "a", "m", "e">>
W_superuser == <<"s", "u", "p", "e", "r", "u", "s", "e", "r">>
W_newest_events == <<"n", "e", "w", "e", "s", "t", "_", "e", "v", "e", "n", "t", "s">>
W_te == <<"t", "e">>
W_hu == <<"h", "u">>
W_il == <<"i", "l">>
W_mo == <<"m", "o">>
W_val == <<"v", "a", "l">>
W_device == <<"d", "e", "v", "i", "c", "e">>
W_type == <<"t", "y", "p", "e">>
W_model == <<"m", "o", "d", "e", "l">>
W_manufacturer == <<"m", "a", "n", "u", "f", "a", "c", "t", "u", "r", "e", "r">>
W_country == <<"c", "o", "u", "n", "t", "r", "y">>
W_remote_name == <<"r", "e", "m", "o", "t", "e", "_", "n", "a", "m", "e">>
W_series == <<"s", "e", "r", "i", "e", "s">>
W_image == <<"i", "m", "a", "g", "e">>
W_smart_meter == <<"s", "m", "a", "r", "t", "_", "m", "e", "t", "e", "r">>
W_echonetlite_properties == <<"e", "c", "h", "o", "n", "e", "t", "l", "i", "t", "e", "_", "p", "r", "o", "p", "e", "r", "t", "i", "e", "s">>
W_epc == <<"e", "p", "c">>

(* node_key.rs: TryFrom<&str> for ModelNodeKey.  Exact match on the wire
   name; NoKey models Err(()) turned into None by .ok(). *)
NoKey == "NoKey"
ModelNodeKey_try_from(s) ==
    CASE s = W_name -> "Name"
      [] s = W_id -> "Id"
      [] s = W_created_at -> "CreatedAt"
      [] s = W_updated_at -> "UpdatedAt"
      [] s = W_mac_address -> "MacAddress"
      [] s = W_bt_mac_address -> "BtMacAddress"
      [] s = W_serial_number -> "SerialNumber"
      [] s = W_firmware_version -> "FirmwareVersion"
      [] s = W_temperature_offset -> "TemperatureOffset"
      [] s = W_humidity_offset -> "HumidityOffset"
      [] s = W_users -> "Users"
      [] s = W_nickname -> "NickName"
      [] s = W_superuser -> "SuperUser"
      [] s = W_newest_events -> "NewestEvents"
      [] s = W_te -> "Te"
      [] s = W_hu -> "Hu"
      [] s = W_il -> "Il"
      [] s = W_mo -> "Mo"
      [] s = W_val -> "Val"
      [] s = W_device -> "Device"
      [] s = W_type -> "Type"
      [] s = W_model -> "Model"
      [] s = W_manufacturer -> "Manufacturer"
      [] s = W_country -> "Country"
      [] s = W_remote_name -> "RemoteName"
      [] s = W_series -> "Series"
      [] s = W_image -> "Image"
      [] s = W_smart_meter -> "SmartMeter"
      [] s = W_echonetlite_properties -> "EchonetLiteProperties"
      [] s = W_epc -> "Epc"
      [] OTHER -> NoKey

(* appliances.rs: TryFrom<&str> for ApplianceType.  NoType models Err(()). *)
NoType == "NoType"
ApplianceType_try_from(s) ==
    CASE s = <<"A", "C">> -> "AC"
      [] s = <<"T", "V">> -> "TV"
      [] s = <<"L", "I", "G", "H", "T">> -> "Light"
      [] s = <<"I", "R">> -> "IR"
      [] s = <<"E", "L", "_", "S", "M", "A", "R", "T", "_", "M", "E", "T", "E", "R">> -> "SmartMeter"
      [] s = <<"E", "L", "_", "E", "L", "E", "C", "T", "R", "I", "C", "_", "W", "A", "T", "E", "R", "_", "H", "E", "A", "T", "E", "R">> -> "ElectricWaterHeater"
      [] s = <<"E", "L", "_", "P", "O", "W", "E", "R", "_", "D", "I", "S", "T", "_", "M", "E", "T", "E", "R">> -> "PowerDistMeter"
      [] s = <<"E", "L", "_", "E", "V", "C", "D">> -> "EVCD"
      [] s = <<"E", "L", "_", "S", "O", "L", "A", "R", "_", "P", "O", "W", "E", "R">> -> "SolarPower"
      [] s = <<"E", "L", "_", "S", "T", "O", "R", "A", "G", "E", "_", "B", "A", "T", "T", "E", "R", "Y">> -> "StorageBattery"
      [] s = <<"Q", "R", "I", "O", "_", "L", "O", "C", "K">> -> "QrioLock"
      [] s = <<"M", "O", "R", "N", "I", "N", "_", "P", "L", "U", "S">> -> "MorninPlus"
      [] OTHER -> NoType

(* Sample scalar strings of the fixtures. *)
S_plain == <<"R", "e", "m", "o">>
S_uuid == <<"f", "2", "6", "2", "c", "b", "0", "c", "-", "a", "8", "5", "3", "-", "4", "7", "b", "b", "-", "9", "5", "5", "9", "-", "4", "4", "d", "0", "f", "2", "c", "4", "d", "6", "e", "2">>
S_timestamp == <<"2", "0", "2", "2", "-", "1", "0", "-", "1", "4", "T", "0", "5", ":", "5", "1", ":", "3", "0", "Z">>
S_mac == <<"c", "8", ":", "2", "b", ":", "9", "6", ":", "0", "0", ":", "1", "1", ":", "2", "2">>
S_type == <<"T", "V">>
S_unknown_key == <<"x">>
S_upper_name == <<"N", "a", "m", "e">>

(***************************************************************************)
(* Bounds of the model.                                                    *)
(***************************************************************************)
(* Longest callback log explored: the driver stops being fed after it. *)
MaxLog == 2
(* Deepest unknown nesting fed to read_devices (its counters are unbounded). *)
MaxUnknownDepth == 9
(* Objects are fed at nesting depths below this one; deeper containers are
   fed as a chain of arrays, up to the depth limits. *)
MaxMixedDepth == 5
(* Deepest negative value of a read_devices depth counter explored. *)
MaxUnderflow == 1

(***************************************************************************)
(* Program constants.                                                      *)
(***************************************************************************)
MAX_FIRMWARE_VERSION_LEN == 48
MAX_NICKNAME_LEN == 48
MAX_MODEL_NAME_LEN == 64
MAX_DEVICE_NAME_LEN == 48
MAX_MANUFACTURER_LEN == 32
MAX_REMOTE_NAME_LEN == 32
MAX_SERIES_LEN == 32
MAX_IMAGE_LEN == 32
MAX_COUNTRY_LEN == 8
MAX_ECHONET_LITE_NAME_LEN == 64
MAX_ECHONET_LITE_VALUE_LEN == 16
SERIAL_NUMBER_LEN == 14
(* Capacity of state_stack: Vec<AppliancesParserState, 10>. *)
STATE_STACK_CAPACITY == 10

(***************************************************************************)
(* Scalars and events handed over by the tokenizer.                        *)
(***************************************************************************)
StringValue(s) == [kind |-> "String", v |-> s]
(* JsonNumber::I32(n). *)
I32Value(n) == [kind |-> "I32", v |-> n]
(* A JsonNumber of a floating kind; v counts tenths. *)
F32Value(t) == [kind |-> "F32", v |-> t]
BooleanValue(b) == [kind |-> "Boolean", v |-> b]
NullValue == [kind |-> "Null", v |-> 0]
NoValue == [kind |-> "None", v |-> 0]

IsString(x) == x.kind = "String"
IsNumber(x) == x.kind \in {"I32", "F32"}
IsBoolean(x) == x.kind = "Boolean"

JsonNode(t, x) == [type |-> t, value |-> x]
NoEvent == JsonNode("None", NoValue)

(* Result<T, ModelNodeParseError>: err = "None" is Ok(val). *)
Ok(x) == [err |-> "None", val |-> x]
Err(e) == [err |-> e, val |-> 0]

(***************************************************************************)
(* Scalar value converters.                                                *)
(***************************************************************************)
HexDigits == {"0", "1", "2", "3", "4", "5", "6", "7", "8", "9",
              "A", "B", "C", "D", "E", "F", "a", "b", "c", "d", "e", "f"}
DecDigits == {"0", "1", "2", "3", "4", "5", "6", "7", "8", "9"}

HexValue(c) ==
    CASE c = "0" -> 0 [] c = "1" -> 1 [] c = "2" -> 2 [] c = "3" -> 3
      [] c = "4" -> 4 [] c = "5" -> 5 [] c = "6" -> 6 [] c = "7" -> 7
      [] c = "8" -> 8 [] c = "9" -> 9
      [] c \in {"A", "a"} -> 10 [] c \in {"B", "b"} -> 11
      [] c \in {"C", "c"} -> 12 [] c \in {"D", "d"} -> 13
      [] c \in {"E", "e"} -> 14 [] c \in {"F", "f"} -> 15

(* char::len_utf8 on the characters the model uses. *)
Utf8Len(c) ==
    CASE c = "U+00E9" -> 2
      [] c = "U+3066" -> 3
      [] c = "U+1F600" -> 4
      [] OTHER -> 1

RECURSIVE ByteLen(_)
ByteLen(s) == IF s = <<>> THEN 0 ELSE Utf8Len(Head(s)) + ByteLen(Tail(s))

(* Mutant: a character that does not fit is passed over and the copy goes
   on with the characters after it. *)
RECURSIVE CopyLoop_SkipsUnfit(_, _, _)
CopyLoop_SkipsUnfit(s, acc, n) ==
    IF s = <<>> THEN acc
    ELSE IF ByteLen(acc) + Utf8Len(Head(s)) > n
         THEN CopyLoop_SkipsUnfit(Tail(s), acc, n)
    ELSE CopyLoop_SkipsUnfit(Tail(s), Append(acc, Head(s)), n)

(* parser_options.rs: copy_string_possible.  Pushes characters until the
   first one that does not fit in the n bytes, then stops. *)
RECURSIVE CopyLoop(_, _, _)
CopyLoop(s, acc, n) ==
    IF s = <<>> THEN acc
    ELSE IF ByteLen(acc) + Utf8Len(Head(s)) > n THEN acc
    ELSE CopyLoop(Tail(s), Append(acc, Head(s)), n)

(* Mutant: the first n characters are kept, whatever their size. *)
copy_string_possible_FirstChars(s, n) ==
    IF Len(s) <= n THEN s ELSE SubSeq(s, 1, n)

copy_string_possible(s, n) == CopyLoop(s, <<>>, n)

(* parser_options.rs: copy_string_option; opts is truncate_too_long_string. *)
copy_string_option(s, n, opts) ==
    IF opts THEN Ok(copy_string_possible(s, n))
    ELSE IF ByteLen(s) <= n THEN Ok(s) ELSE Err("StringTooLong")

(* Mutant: an octet with a character that is no hexadecimal digit reads as 0. *)
ByteStringAt_Lenient(s, i) ==
    IF i + 1 <= Len(s) /\ s[i] \in HexDigits /\ s[i + 1] \in HexDigits
    THEN Ok(16 * HexValue(s[i]) + HexValue(s[i + 1]))
    ELSE Ok(0)

(* device.rs: parse_byte_string at position i of s: two hex digits. *)
ByteStringAt(s, i) ==
    IF i + 1 <= Len(s) /\ s[i] \in HexDigits /\ s[i + 1] \in HexDigits
    THEN Ok(16 * HexValue(s[i]) + HexValue(s[i + 1]))
    ELSE Err("MacAddressParseError")

(* Mutant: only the colon delimits octets. *)
MacDelimiters_ColonOnly == {":"}

MacDelimiters == {":", "-"}

(* Mutant: characters after the sixth octet are refused. *)
MacAddress_from_str_WholeInput(s) ==
    LET octet(k) == ByteStringAt(s, 3 * k + 1)
        delim(k) == 3 * k <= Len(s) /\ s[3 * k] \in MacDelimiters
    IN  IF /\ \A k \in 0..5 : octet(k).err = "None"
           /\ \A k \in 1..5 : delim(k)
           /\ Len(s) = 17
        THEN Ok([k \in 1..6 |-> octet(k - 1).val])
        ELSE Err("MacAddressParseError")

(* device.rs: parse_mac_address + MacAddress::from_str.  Six octets with a
   delimiter between neighbours; what follows the sixth octet is not read. *)
MacAddress_from_str(s) ==
    LET octet(k) == ByteStringAt(s, 3 * k + 1)
        delim(k) == 3 * k <= Len(s) /\ s[3 * k] \in MacDelimiters
    IN  IF /\ \A k \in 0..5 : octet(k).err = "None"
           /\ \A k \in 1..5 : delim(k)
        THEN Ok([k \in 1..6 |-> octet(k - 1).val])
        ELSE Err("MacAddressParseError")

DefaultMacAddress == [k \in 1..6 |-> 0]

(* Uuid::from_str (uuid crate) on the hyphenated 8-4-4-4-12 form the API
   sends: the value is the 32 hexadecimal digits, as numbers. *)
UuidHyphens == {9, 14, 19, 24}
Uuid_from_str(s) ==
    IF /\ Len(s) = 36
       /\ \A i \in 1..36 : IF i \in UuidHyphens THEN s[i] = "-" ELSE s[i] \in HexDigits
    THEN Ok([i \in 1..32 |->
              HexValue(s[CHOOSE j \in 1..36 :
                           /\ j \notin UuidHyphens
                           /\ Cardinality({h \in 1..j : h \notin UuidHyphens}) = i])])
    ELSE Err("UuidParseError")

DefaultUuid == [i \in 1..32 |-> 0]

(* Timestamp::from_str (chrono DateTime<Utc>) on the form the API sends,
   YYYY-MM-DDTHH:MM:SSZ: the value is <<year, month, day, hour, min, sec>>. *)
Dec2(s, i) == 10 * HexValue(s[i]) + HexValue(s[i + 1])
Timestamp_from_str(s) ==
    IF /\ Len(s) = 20
       /\ \A i \in {1, 2, 3, 4, 6, 7, 9, 10, 12, 13, 15, 16, 18, 19} : s[i] \in DecDigits
       /\ s[5] = "-" /\ s[8] = "-" /\ s[11] = "T"
       /\ s[14] = ":" /\ s[17] = ":" /\ s[20] = "Z"
       /\ Dec2(s, 6) \in 1..12 /\ Dec2(s, 9) \in 1..31
       /\ Dec2(s, 12) \in 0..23 /\ Dec2(s, 15) \in 0..59 /\ Dec2(s, 18) \in 0..59
    THEN Ok(<<100 * Dec2(s, 1) + Dec2(s, 3), Dec2(s, 6), Dec2(s, 9),
              Dec2(s, 12), Dec2(s, 15), Dec2(s, 18)>>)
    ELSE Err("TimestampParseError")

DefaultTimestamp == <<1970, 1, 1, 0, 0, 0>>

(* n.into() of a JsonNumber into f32; floats count tenths. *)
Number_into_f32(x) == IF x.kind = "I32" THEN 10 * x.v ELSE x.v

(* Mutant: a negative code is stored as 0 instead of wrapping. *)
I32_as_u32_NegativeIsZero(n) ==
    IF n < 0 THEN [hi |-> 0, lo |-> 0]
    ELSE [hi |-> (n \div 65536) % 65536, lo |-> n % 65536]

(* n as u32 of an i32: the value n mod 2^32, kept as its two 16-bit halves
   (hi * 65536 + lo). *)
I32_as_u32(n) == [hi |-> (n \div 65536) % 65536, lo |-> n % 65536]

(***************************************************************************)
(* Records.                                                                *)
(***************************************************************************)
DefaultDevice ==
    [id |-> DefaultUuid, name |-> <<>>, temperature_offset |-> 0,
     humidity_offset |-> 0, created_at |-> DefaultTimestamp,
     updated_at |-> DefaultTimestamp, firmware_version |-> <<>>,
     mac_address |-> DefaultMacAddress, bt_mac_address |-> DefaultMacAddress,
     serial_number |-> <<>>]

DefaultUser == [id |-> DefaultUuid, nickname |-> <<>>, superuser |-> FALSE]

DefaultSensorValue == [val |-> 0, created_at |-> DefaultTimestamp]

(* Option<SensorValue>: <<>> is None, <<x>> is Some(x). *)
DefaultNewestEvents ==
    [temperature |-> <<>>, humidity |-> <<>>, illumination |-> <<>>, motion |-> <<>>]

DefaultAppliance ==
    [id |-> DefaultUuid, type_ |-> "AC", nickname |-> <<>>, image |-> <<>>]

DefaultApplianceModel ==
    [id |-> DefaultUuid, country |-> <<>>, manufacturer |-> <<>>,
     remote_name |-> <<>>, series |-> <<>>, name |-> <<>>, image |-> <<>>]

DefaultEchonetLiteProperty ==
    [name |-> <<>>, epc |-> [hi |-> 0, lo |-> 0], val |-> <<>>, updated_at |-> DefaultTimestamp]

(* DeviceSubNode / ApplianceSubNode: kind is the discriminant. *)
SubNode(k, x) == [kind |-> k, val |-> x]
(* The absent second view of a callback (None). *)
NoSubNode == [kind |-> "None", val |-> 0]

(***************************************************************************)
(* State.                                                                  *)
(***************************************************************************)
VARIABLES
    schema,               \* which decode operation runs: "devices" or "appliances"
    options,              \* ParserOptions.truncate_too_long_string
    state,                \* the current context
    node_key,             \* the pending key (NoKey is None)
    state_stack,          \* read_appliances: the context stack
    unknown_map_depth,    \* read_devices: open unknown objects
    unknown_array_depth,  \* read_devices: open unknown arrays
    device,               \* read_devices: the parent record
    appliance,            \* read_appliances: the parent record
    subnode,              \* the sub-record slot
    result,               \* "Running", "Ok", or the error returned
    last_event,           \* the event processed last
    emitted,              \* the callbacks invoked while processing last_event
    cb_log,               \* discriminants of all callbacks so far, in order
    wf,                   \* the events so far are a prefix of one JSON document
    doc_path,             \* document: classes of the open containers
    doc_key,              \* document: key awaiting its value in the open object
    doc_done,             \* document: the top-level value is complete
    doc_log,              \* document: records and sub-records closed, in order
    doc_fields,           \* document: device fields seen in the open device object
    doc_closed,           \* document: class of the container last_event closed
    doc_shape,            \* document: how far the events spell the empty array
    doc_observed,         \* parent record of the last sub-record-absent callback
                          \* since the open record began (<<>>: none yet)
    family,               \* which family of documents the tokenizer is made to deliver
    conv_call,            \* a converter called on its own: the operation and its input
    conv_ret              \* what that call returned

mvars == <<state, node_key, state_stack, unknown_map_depth, unknown_array_depth,
           device, appliance, subnode>>
gvars == <<wf, doc_path, doc_key, doc_done, doc_log, doc_fields, doc_closed,
           doc_shape, doc_observed>>
cvars == <<conv_call, conv_ret>>
vars == <<schema, options, state, node_key, state_stack, unknown_map_depth,
          unknown_array_depth, device, appliance, subnode, result, last_event,
          emitted, cb_log, wf, doc_path, doc_key, doc_done, doc_log, doc_fields,
          doc_closed, doc_shape, doc_observed, family, conv_call, conv_ret>>

(* No converter has been called on its own. *)
NoCall == [op |-> "None", s |-> <<>>, n |-> 0, octets |-> <<>>, delims |-> <<>>]

(* callback(&parent, sub): one invocation, as the caller observes it. *)
Callback(parent, sub) == [parent |-> parent, sub |-> sub]

(* The handler returns an error: the driver loop stops with it. *)
Fail(e) == result' = e

(***************************************************************************)
(* read_appliances: one call of the closure per event.                     *)
(***************************************************************************)
(* Mutant: the top-level array context is taken for a map context. *)
is_map_state_WithAppliancesArray(s) ==
    s \in {"ApplianceMap", "DeviceMap", "ModelMap", "SmartMeterMap",
           "EchonetLitePropertyMap", "UnknownMap", "AppliancesArray"}

is_map_state(s) ==
    s \in {"ApplianceMap", "DeviceMap", "ModelMap", "SmartMeterMap",
           "EchonetLitePropertyMap", "UnknownMap"}

(* Mutant: the top-level array context is left out. *)
is_array_state_WithoutAppliancesArray(s) ==
    s \in {"EchonetLitePropertiesArray", "UnknownArray"}

is_array_state(s) ==
    s \in {"AppliancesArray", "EchonetLitePropertiesArray", "UnknownArray"}

(* Mutant: the stack takes one entry more than its capacity. *)
StackFull_OffByOne(st) == Len(st) > STATE_STACK_CAPACITY

(* state_stack.push(state): Err when the Vec is full. *)
StackFull(st) == Len(st) >= STATE_STACK_CAPACITY

(* (state, JsonNode::StartArray) *)
ApplStartArrayTarget(s, key) ==
    IF s = "Start" THEN "AppliancesArray"
    ELSE IF s = "SmartMeterMap" /\ key = "EchonetLiteProperties"
    THEN "EchonetLitePropertiesArray"
    ELSE "UnknownArray"

appliances_StartArray ==
    IF StackFull(state_stack)
    THEN /\ Fail("NodeTooDeep")
         /\ emitted' = <<>>
         /\ UNCHANGED mvars
    ELSE /\ state_stack' = Append(state_stack, state)
         /\ node_key' = NoKey
         /\ state' = ApplStartArrayTarget(state, node_key)
         /\ emitted' = <<>>
         /\ UNCHANGED <<result, unknown_map_depth, unknown_array_depth,
                        device, appliance, subnode>>

(* Mutant: an object opened at the top level leaves the context at Start. *)
ApplStartMapTarget_TopLevelStaysStart(s, key) ==
    IF s = "Start" THEN "Start"
    ELSE IF s = "AppliancesArray" THEN "ApplianceMap"
    ELSE IF s = "ApplianceMap" /\ key = "Device" THEN "DeviceMap"
    ELSE IF s = "ApplianceMap" /\ key = "Model" THEN "ModelMap"
    ELSE IF s = "ApplianceMap" /\ key = "SmartMeter" THEN "SmartMeterMap"
    ELSE IF s = "EchonetLitePropertiesArray" THEN "EchonetLitePropertyMap"
    ELSE "UnknownMap"

(* Mutant: the keys device, model and smart_meter select their context in
   any parent object, not only in an appliance object. *)
ApplStartMapTarget_AnyParent(s, key) ==
    IF s = "AppliancesArray" THEN "ApplianceMap"
    ELSE IF s = "EchonetLitePropertiesArray" THEN "EchonetLitePropertyMap"
    ELSE IF key = "Device" THEN "DeviceMap"
    ELSE IF key = "Model" THEN "ModelMap"
    ELSE IF key = "SmartMeter" THEN "SmartMeterMap"
    ELSE "UnknownMap"

(* (state, JsonNode::StartMap): the child context and the sub-record slot. *)
ApplStartMapTarget(s, key) ==
    IF s = "AppliancesArray" THEN "ApplianceMap"
    ELSE IF s = "ApplianceMap" /\ key = "Device" THEN "DeviceMap"
    ELSE IF s = "ApplianceMap" /\ key = "Model" THEN "ModelMap"
    ELSE IF s = "ApplianceMap" /\ key = "SmartMeter" THEN "SmartMeterMap"
    ELSE IF s = "EchonetLitePropertiesArray" THEN "EchonetLitePropertyMap"
    ELSE "UnknownMap"

(* Mutant: the slot of an echonet-lite property is not reset. *)
ApplStartMapSubnode_PropertyKept(target, sub) ==
    CASE target = "DeviceMap" -> SubNode("Device", DefaultDevice)
      [] target = "ModelMap" -> SubNode("Model", DefaultApplianceModel)
      [] target = "EchonetLitePropertyMap" /\ sub.kind # "EchonetLiteProperty" ->
             SubNode("EchonetLiteProperty", DefaultEchonetLiteProperty)
      [] OTHER -> sub

(* Mutant: the slot is reset when an unknown object opens. *)
ApplStartMapSubnode_UnknownResets(target, sub) ==
    CASE target = "DeviceMap" -> SubNode("Device", DefaultDevice)
      [] target = "ModelMap" -> SubNode("Model", DefaultApplianceModel)
      [] target = "EchonetLitePropertyMap" ->
             SubNode("EchonetLiteProperty", DefaultEchonetLiteProperty)
      [] target = "UnknownMap" -> SubNode("Device", DefaultDevice)
      [] OTHER -> sub

(* Mutant: the slot is not reset when a model object opens. *)
ApplStartMapSubnode_ModelKept(target, sub) ==
    CASE target = "DeviceMap" -> SubNode("Device", DefaultDevice)
      [] target = "EchonetLitePropertyMap" ->
             SubNode("EchonetLiteProperty", DefaultEchonetLiteProperty)
      [] OTHER -> sub

ApplStartMapSubnode(target, sub) ==
    CASE target = "DeviceMap" -> SubNode("Device", DefaultDevice)
      [] target = "ModelMap" -> SubNode("Model", DefaultApplianceModel)
      [] target = "EchonetLitePropertyMap" ->
             SubNode("EchonetLiteProperty", DefaultEchonetLiteProperty)
      [] OTHER -> sub

(* Mutant: the appliance record is reset when an appliance object opens. *)
appliances_StartMap_ResetsAppliance ==
    IF StackFull(state_stack)
    THEN /\ Fail("NodeTooDeep")
         /\ emitted' = <<>>
         /\ UNCHANGED mvars
    ELSE /\ state_stack' = Append(state_stack, state)
         /\ node_key' = NoKey
         /\ state' = ApplStartMapTarget(state, node_key)
         /\ subnode' = ApplStartMapSubnode(ApplStartMapTarget(state, node_key), subnode)
         /\ appliance' = IF state = "AppliancesArray" THEN DefaultAppliance ELSE appliance
         /\ emitted' = <<>>
         /\ UNCHANGED <<result, unknown_map_depth, unknown_array_depth, device>>

appliances_StartMap ==
    IF StackFull(state_stack)
    THEN /\ Fail("NodeTooDeep")
         /\ emitted' = <<>>
         /\ UNCHANGED mvars
    ELSE /\ state_stack' = Append(state_stack, state)
         /\ node_key' = NoKey
         /\ state' = ApplStartMapTarget(state, node_key)
         /\ subnode' = ApplStartMapSubnode(ApplStartMapTarget(state, node_key), subnode)
         /\ emitted' = <<>>
         /\ UNCHANGED <<result, unknown_map_depth, unknown_array_depth,
                        device, appliance>>

(* Mutant: the pop removes the top entry but restores the bottom one. *)
ApplPop_RestoresBottom ==
    IF state_stack = <<>>
    THEN /\ Fail("UnexpectedMapArrayEnd")
         /\ UNCHANGED <<state, state_stack>>
    ELSE /\ state' = state_stack[1]
         /\ state_stack' = SubSeq(state_stack, 1, Len(state_stack) - 1)
         /\ UNCHANGED result

(* state_stack.pop().ok_or(UnexpectedMapArrayEnd)? *)
ApplPop ==
    IF state_stack = <<>>
    THEN /\ Fail("UnexpectedMapArrayEnd")
         /\ UNCHANGED <<state, state_stack>>
    ELSE /\ state' = state_stack[Len(state_stack)]
         /\ state_stack' = SubSeq(state_stack, 1, Len(state_stack) - 1)
         /\ UNCHANGED result

(* (state, EndArray) if state.is_array_state(), else (_, EndArray). *)
appliances_EndArray ==
    /\ emitted' = <<>>
    /\ UNCHANGED <<node_key, unknown_map_depth, unknown_array_depth,
                   device, appliance, subnode>>
    /\ IF is_array_state(state)
       THEN ApplPop
       ELSE /\ Fail("UnexpectedMapArrayEnd")
            /\ UNCHANGED <<state, state_stack>>

(* Mutant: closing the smart_meter wrapper invokes the callback. *)
ApplEndMapCallbacks_SmartMeterInvokes(s, app, sub) ==
    IF s = "UnknownMap" THEN <<>>
    ELSE IF s # "ApplianceMap" THEN <<Callback(app, sub)>>
    ELSE <<Callback(app, NoSubNode)>>

(* Mutant: closing an unknown object invokes the callback. *)
ApplEndMapCallbacks_UnknownInvokes(s, app, sub) ==
    IF s = "SmartMeterMap" THEN <<>>
    ELSE IF s # "ApplianceMap" THEN <<Callback(app, sub)>>
    ELSE <<Callback(app, NoSubNode)>>

(* The (dont_invoke_callback, is_subnode) table of the EndMap arm. *)
ApplEndMapCallbacks(s, app, sub) ==
    LET dont_invoke_callback == s \in {"UnknownMap", "SmartMeterMap"}
        is_subnode == s # "ApplianceMap"
    IN  IF dont_invoke_callback THEN <<>>
        ELSE IF is_subnode THEN <<Callback(app, sub)>>
        ELSE <<Callback(app, NoSubNode)>>

(* (state, EndMap) if state.is_map_state(), else (_, EndMap). *)
appliances_EndMap ==
    /\ UNCHANGED <<node_key, unknown_map_depth, unknown_array_depth,
                   device, appliance, subnode>>
    /\ IF is_map_state(state)
       THEN /\ emitted' = ApplEndMapCallbacks(state, appliance, subnode)
            /\ ApplPop
       ELSE /\ emitted' = <<>>
            /\ Fail("UnexpectedMapArrayEnd")
            /\ UNCHANGED <<state, state_stack>>

(* Mutant: a key that is no wire name leaves the pending key as it was. *)
KeyStore_UnknownKeeps(key, old) ==
    IF IsString(key) /\ ModelNodeKey_try_from(key.v) # NoKey
    THEN ModelNodeKey_try_from(key.v)
    ELSE old

(* Mutant: the key is matched without regard to case. *)
KeyStore_IgnoreCase(key, old) ==
    IF IsString(key) /\ key.v = <<"N", "a", "m", "e">> THEN "Name"
    ELSE IF IsString(key) THEN ModelNodeKey_try_from(key.v) ELSE old

(* Mutant: a key that is no string clears the pending key. *)
KeyStore_NonStringClears(key, old) ==
    IF IsString(key) THEN ModelNodeKey_try_from(key.v) ELSE NoKey

(* (map_state, JsonNode::Key(key)): a string key is resolved and stored. *)
KeyStore(key, old) == IF IsString(key) THEN ModelNodeKey_try_from(key.v) ELSE old

appliances_Key(key) ==
    /\ node_key' = KeyStore(key, node_key)
    /\ emitted' = <<>>
    /\ UNCHANGED <<result, state, state_stack, unknown_map_depth,
                   unknown_array_depth, device, appliance, subnode>>

(* field = conversion?: the field is assigned unless the conversion failed. *)
SetField(rec, f, r) ==
    IF r.err = "None" THEN Ok([rec EXCEPT ![f] = r.val]) ELSE Err(r.err)

(* appliances.rs: match (node_key, value) of (DeviceMap, Value). *)
ApplDeviceMapValue(dev, key, value, opts) ==
    CASE key = "Name" /\ IsString(value) ->
             SetField(dev, "name", copy_string_option(value.v, MAX_DEVICE_NAME_LEN, opts))
      [] key = "Id" /\ IsString(value) ->
             SetField(dev, "id", Uuid_from_str(value.v))
      [] key = "CreatedAt" /\ IsString(value) ->
             SetField(dev, "created_at", Timestamp_from_str(value.v))
      [] key = "UpdatedAt" /\ IsString(value) ->
             SetField(dev, "updated_at", Timestamp_from_str(value.v))
      [] key = "MacAddress" /\ IsString(value) ->
             SetField(dev, "mac_address", MacAddress_from_str(value.v))
      [] key = "BtMacAddress" /\ IsString(value) ->
             SetField(dev, "bt_mac_address", MacAddress_from_str(value.v))
      [] key = "SerialNumber" /\ IsString(value) ->
             SetField(dev, "serial_number", copy_string_option(value.v, SERIAL_NUMBER_LEN, opts))
      [] key = "FirmwareVersion" /\ IsString(value) ->
             SetField(dev, "firmware_version",
                      copy_string_option(value.v, MAX_FIRMWARE_VERSION_LEN, opts))
      [] key = "TemperatureOffset" /\ IsNumber(value) ->
             SetField(dev, "temperature_offset", Ok(Number_into_f32(value)))
      [] key = "HumidityOffset" /\ IsNumber(value) ->
             SetField(dev, "humidity_offset", Ok(Number_into_f32(value)))
      [] OTHER -> Ok(dev)

(* Mutant: a tag that is none of the literals leaves the type as it is read
   by default. *)
ApplianceType_convert_Lenient(s) ==
    IF ApplianceType_try_from(s) = NoType THEN Ok("AC")
    ELSE Ok(ApplianceType_try_from(s))

(* appliances.rs: match (node_key, value) of (ApplianceMap, Value). *)
ApplianceType_convert(s) ==
    IF ApplianceType_try_from(s) = NoType THEN Err("UnexpectedEnumValue")
    ELSE Ok(ApplianceType_try_from(s))

ApplianceMapValue(app, key, value, opts) ==
    CASE key = "NickName" /\ IsString(value) ->
             SetField(app, "nickname", copy_string_option(value.v, MAX_NICKNAME_LEN, opts))
      [] key = "Id" /\ IsString(value) ->
             SetField(app, "id", Uuid_from_str(value.v))
      [] key = "Type" /\ IsString(value) ->
             SetField(app, "type_", ApplianceType_convert(value.v))
      [] key = "Image" /\ IsString(value) ->
             SetField(app, "image", copy_string_option(value.v, MAX_IMAGE_LEN, opts))
      [] OTHER -> Ok(app)

(* appliances.rs: match (node_key, value) of (ModelMap, Value). *)
ModelMapValue(model, key, value, opts) ==
    CASE key = "Name" /\ IsString(value) ->
             SetField(model, "name", copy_string_option(value.v, MAX_MODEL_NAME_LEN, opts))
      [] key = "Id" /\ IsString(value) ->
             SetField(model, "id", Uuid_from_str(value.v))
      [] key = "Country" /\ IsString(value) ->
             SetField(model, "country", copy_string_option(value.v, MAX_COUNTRY_LEN, opts))
      [] key = "Manufacturer" /\ IsString(value) ->
             SetField(model, "manufacturer",
                      copy_string_option(value.v, MAX_MANUFACTURER_LEN, opts))
      [] key = "RemoteName" /\ IsString(value) ->
             SetField(model, "remote_name",
                      copy_string_option(value.v, MAX_REMOTE_NAME_LEN, opts))
      [] key = "Series" /\ IsString(value) ->
             SetField(model, "series", copy_string_option(value.v, MAX_SERIES_LEN, opts))
      [] key = "Image" /\ IsString(value) ->
             SetField(model, "image", copy_string_option(value.v, MAX_IMAGE_LEN, opts))
      [] OTHER -> Ok(model)

(* appliances.rs: match (node_key, value) of (EchonetLitePropertyMap, Value). *)
EchonetLitePropertyMapValue(property, key, value, opts) ==
    CASE key = "Name" /\ IsString(value) ->
             SetField(property, "name",
                      copy_string_option(value.v, MAX_ECHONET_LITE_NAME_LEN, opts))
      [] key = "Epc" /\ value.kind = "I32" ->
             SetField(property, "epc", Ok(I32_as_u32(value.v)))
      [] key = "Val" /\ IsString(value) ->
             SetField(property, "val",
                      copy_string_option(value.v, MAX_ECHONET_LITE_VALUE_LEN, opts))
      [] key = "UpdatedAt" /\ IsString(value) ->
             SetField(property, "updated_at", Timestamp_from_str(value.v))
      [] OTHER -> Ok(property)

(* The sub-record kind a value context of read_appliances writes to. *)
ApplSubnodeKindOf(s) ==
    CASE s = "DeviceMap" -> "Device"
      [] s = "ModelMap" -> "Model"
      [] s = "EchonetLitePropertyMap" -> "EchonetLiteProperty"

ApplSubnodeMapValue(s, rec, key, value, opts) ==
    CASE s = "DeviceMap" -> ApplDeviceMapValue(rec, key, value, opts)
      [] s = "ModelMap" -> ModelMapValue(rec, key, value, opts)
      [] s = "EchonetLitePropertyMap" -> EchonetLitePropertyMapValue(rec, key, value, opts)

(* The (.., JsonNode::Value(value)) arms of read_appliances, in match order. *)
appliances_Value(value) ==
    /\ emitted' = <<>>
    /\ UNCHANGED <<state, state_stack, unknown_map_depth, unknown_array_depth, device>>
    /\ CASE state \in {"DeviceMap", "ModelMap", "EchonetLitePropertyMap"} ->
              IF subnode.kind # ApplSubnodeKindOf(state)
              THEN /\ Fail("UnexpectedParserState")
                   /\ UNCHANGED <<node_key, appliance, subnode>>
              ELSE LET r == ApplSubnodeMapValue(state, subnode.val, node_key, value, options)
                   IN  /\ node_key' = NoKey
                       /\ UNCHANGED appliance
                       /\ IF r.err = "None"
                          THEN /\ subnode' = SubNode(subnode.kind, r.val)
                               /\ UNCHANGED result
                          ELSE /\ Fail(r.err)
                               /\ UNCHANGED subnode
         [] state = "ApplianceMap" ->
              LET r == ApplianceMapValue(appliance, node_key, value, options)
              IN  /\ node_key' = NoKey
                  /\ UNCHANGED subnode
                  /\ IF r.err = "None"
                     THEN /\ appliance' = r.val
                          /\ UNCHANGED result
                     ELSE /\ Fail(r.err)
                          /\ UNCHANGED appliance
         [] state \in {"UnknownMap", "UnknownArray"} ->
              UNCHANGED <<result, node_key, appliance, subnode>>
         [] OTHER ->
              /\ Fail("UnexpectedParserState")
              /\ UNCHANGED <<node_key, appliance, subnode>>

(***************************************************************************)
(* read_devices: one call of the closure per event.                        *)
(***************************************************************************)
(* DevicesParserState::NewestEventMap(t), one context per NewestEventType. *)
NewestEventMapStates ==
    {"NewestEventMap(Temperature)", "NewestEventMap(Humidity)",
     "NewestEventMap(Illumination)", "NewestEventMap(Motion)"}

(* The NewestEvents field a sensor context fills. *)
NewestEventField(s) ==
    CASE s = "NewestEventMap(Temperature)" -> "temperature"
      [] s = "NewestEventMap(Humidity)" -> "humidity"
      [] s = "NewestEventMap(Illumination)" -> "illumination"
      [] s = "NewestEventMap(Motion)" -> "motion"

(* Mutant: any other key is taken for the temperature sensor. *)
NewestEventTarget_DefaultsToTemperature(key) ==
    CASE key = "Hu" -> "NewestEventMap(Humidity)"
      [] key = "Il" -> "NewestEventMap(Illumination)"
      [] key = "Mo" -> "NewestEventMap(Motion)"
      [] OTHER -> "NewestEventMap(Temperature)"

(* (NewestEventsMap, StartMap): match node_key.take(). *)
NewestEventTarget(key) ==
    CASE key = "Te" -> "NewestEventMap(Temperature)"
      [] key = "Hu" -> "NewestEventMap(Humidity)"
      [] key = "Il" -> "NewestEventMap(Illumination)"
      [] key = "Mo" -> "NewestEventMap(Motion)"
      [] OTHER -> "None"

(* The catch-all arm (state, json_node): UnexpectedNode. *)
DevUnexpectedNode ==
    /\ Fail("UnexpectedNode")
    /\ emitted' = <<>>
    /\ UNCHANGED mvars

(* Mutant: the open of the users array invokes no callback. *)
DevStartArrayCallbacks_Silent(key, dev) == <<>>

(* The callbacks of (DeviceMap, StartArray). *)
DevStartArrayCallbacks(key, dev) ==
    IF key = "Users" THEN <<Callback(dev, NoSubNode)>> ELSE <<>>

devices_StartArray ==
    CASE state = "Start" ->
              /\ state' = "DevicesArray"
              /\ emitted' = <<>>
              /\ UNCHANGED <<result, node_key, state_stack, unknown_map_depth,
                             unknown_array_depth, device, appliance, subnode>>
      [] state = "DeviceMap" ->
              /\ node_key' = NoKey
              /\ emitted' = DevStartArrayCallbacks(node_key, device)
              /\ IF node_key = "Users"
                 THEN /\ state' = "UsersArray"
                      /\ UNCHANGED unknown_array_depth
                 ELSE /\ unknown_array_depth' = unknown_array_depth + 1
                      /\ state' = "UnknownMapArray"
              /\ UNCHANGED <<result, state_stack, unknown_map_depth, device,
                             appliance, subnode>>
      [] state = "UnknownMapArray" ->
              /\ unknown_array_depth' = unknown_array_depth + 1
              /\ emitted' = <<>>
              /\ UNCHANGED <<result, state, node_key, state_stack, unknown_map_depth,
                             device, appliance, subnode>>
      [] OTHER -> DevUnexpectedNode

(* Mutant: the slot is not reset when the newest_events object opens. *)
devices_StartMap_SlotKept ==
    CASE state = "DevicesArray" ->
              /\ state' = "DeviceMap"
              /\ emitted' = <<>>
              /\ UNCHANGED <<result, node_key, state_stack, unknown_map_depth,
                             unknown_array_depth, device, appliance, subnode>>
      [] state = "DeviceMap" ->
              /\ node_key' = NoKey
              /\ emitted' = <<>>
              /\ IF node_key = "NewestEvents"
                 THEN /\ state' = "NewestEventsMap"
                      /\ UNCHANGED <<subnode, unknown_map_depth>>
                 ELSE /\ unknown_map_depth' = unknown_map_depth + 1
                      /\ state' = "UnknownMapArray"
                      /\ UNCHANGED subnode
              /\ UNCHANGED <<result, state_stack, unknown_array_depth, device, appliance>>
      [] state = "UsersArray" ->
              /\ subnode' = SubNode("User", DefaultUser)
              /\ state' = "UserMap"
              /\ emitted' = <<>>
              /\ UNCHANGED <<result, node_key, state_stack, unknown_map_depth,
                             unknown_array_depth, device, appliance>>
      [] state = "NewestEventsMap" ->
              /\ emitted' = <<>>
              /\ UNCHANGED <<state_stack, unknown_map_depth, unknown_array_depth,
                             device, appliance>>
              /\ IF subnode.kind # "NewestEvents"
                 THEN /\ Fail("Panic")
                      /\ UNCHANGED <<state, node_key, subnode>>
                 ELSE /\ node_key' = NoKey
                      /\ IF NewestEventTarget(node_key) = "None"
                         THEN /\ Fail("UnknownNewestEventsType")
                              /\ UNCHANGED <<state, subnode>>
                         ELSE /\ state' = NewestEventTarget(node_key)
                              /\ subnode' =
                                   SubNode("NewestEvents",
                                           [subnode.val EXCEPT
                                              ![NewestEventField(NewestEventTarget(node_key))] =
                                                  <<DefaultSensorValue>>])
                              /\ UNCHANGED result
      [] state = "UnknownMapArray" ->
              /\ unknown_map_depth' = unknown_map_depth + 1
              /\ emitted' = <<>>
              /\ UNCHANGED <<result, state, node_key, state_stack, unknown_array_depth,
                             device, appliance, subnode>>
      [] OTHER -> DevUnexpectedNode

devices_StartMap ==
    CASE state = "DevicesArray" ->
              /\ state' = "DeviceMap"
              /\ emitted' = <<>>
              /\ UNCHANGED <<result, node_key, state_stack, unknown_map_depth,
                             unknown_array_depth, device, appliance, subnode>>
      [] state = "DeviceMap" ->
              /\ node_key' = NoKey
              /\ emitted' = <<>>
              /\ IF node_key = "NewestEvents"
                 THEN /\ subnode' = SubNode("NewestEvents", DefaultNewestEvents)
                      /\ state' = "NewestEventsMap"
                      /\ UNCHANGED unknown_map_depth
                 ELSE /\ unknown_map_depth' = unknown_map_depth + 1
                      /\ state' = "UnknownMapArray"
                      /\ UNCHANGED subnode
              /\ UNCHANGED <<result, state_stack, unknown_array_depth, device, appliance>>
      [] state = "UsersArray" ->
              /\ subnode' = SubNode("User", DefaultUser)
              /\ state' = "UserMap"
              /\ emitted' = <<>>
              /\ UNCHANGED <<result, node_key, state_stack, unknown_map_depth,
                             unknown_array_depth, device, appliance>>
      [] state = "NewestEventsMap" ->
              /\ emitted' = <<>>
              /\ UNCHANGED <<state_stack, unknown_map_depth, unknown_array_depth,
                             device, appliance>>
              /\ IF subnode.kind # "NewestEvents"
                 THEN /\ Fail("Panic")
                      /\ UNCHANGED <<state, node_key, subnode>>
                 ELSE /\ node_key' = NoKey
                      /\ IF NewestEventTarget(node_key) = "None"
                         THEN /\ Fail("UnknownNewestEventsType")
                              /\ UNCHANGED <<state, subnode>>
                         ELSE /\ state' = NewestEventTarget(node_key)
                              /\ subnode' =
                                   SubNode("NewestEvents",
                                           [subnode.val EXCEPT
                                              ![NewestEventField(NewestEventTarget(node_key))] =
                                                  <<DefaultSensorValue>>])
                              /\ UNCHANGED result
      [] state = "UnknownMapArray" ->
              /\ unknown_map_depth' = unknown_map_depth + 1
              /\ emitted' = <<>>
              /\ UNCHANGED <<result, state, node_key, state_stack, unknown_array_depth,
                             device, appliance, subnode>>
      [] OTHER -> DevUnexpectedNode

(* Mutant: the unknown subtree is taken to end when either counter is zero. *)
UnknownCloseTarget_EitherZero(array_depth, map_depth) ==
    IF array_depth = 0 \/ map_depth = 0 THEN "DeviceMap" ELSE "UnknownMapArray"

(* Mutant: the unknown subtree is taken to end when no array is open. *)
UnknownCloseTarget_ArraysOnly(array_depth, map_depth) ==
    IF array_depth = 0 THEN "DeviceMap" ELSE "UnknownMapArray"

(* The context after a close counted inside an unknown subtree. *)
UnknownCloseTarget(array_depth, map_depth) ==
    IF array_depth = 0 /\ map_depth = 0 THEN "DeviceMap" ELSE "UnknownMapArray"

devices_EndArray ==
    CASE state = "DevicesArray" ->
              /\ state' = "Start"
              /\ emitted' = <<>>
              /\ UNCHANGED <<result, node_key, state_stack, unknown_map_depth,
                             unknown_array_depth, device, appliance, subnode>>
      [] state = "UsersArray" ->
              /\ state' = "DeviceMap"
              /\ emitted' = <<>>
              /\ UNCHANGED <<result, node_key, state_stack, unknown_map_depth,
                             unknown_array_depth, device, appliance, subnode>>
      [] state = "UnknownMapArray" ->
              /\ unknown_array_depth' = unknown_array_depth - 1
              /\ state' = UnknownCloseTarget(unknown_array_depth - 1, unknown_map_depth)
              /\ emitted' = <<>>
              /\ UNCHANGED <<result, node_key, state_stack, unknown_map_depth,
                             device, appliance, subnode>>
      [] OTHER -> DevUnexpectedNode

(* Mutant: closing a sensor object invokes the callback too. *)
DevEndMapCallbacks_SensorInvokes(s, dev, sub) ==
    IF s \in {"UserMap", "NewestEventsMap", "NewestEventMap(Temperature)",
              "NewestEventMap(Humidity)", "NewestEventMap(Illumination)",
              "NewestEventMap(Motion)"}
    THEN <<Callback(dev, sub)>> ELSE <<>>

(* The callbacks of the EndMap arms of read_devices. *)
DevEndMapCallbacks(s, dev, sub) ==
    IF s \in {"UserMap", "NewestEventsMap"} THEN <<Callback(dev, sub)>> ELSE <<>>

devices_EndMap ==
    CASE state = "DeviceMap" ->
              /\ state' = "DevicesArray"
              /\ emitted' = DevEndMapCallbacks(state, device, subnode)
              /\ UNCHANGED <<result, node_key, state_stack, unknown_map_depth,
                             unknown_array_depth, device, appliance, subnode>>
      [] state = "UserMap" ->
              /\ state' = "UsersArray"
              /\ emitted' = DevEndMapCallbacks(state, device, subnode)
              /\ UNCHANGED <<result, node_key, state_stack, unknown_map_depth,
                             unknown_array_depth, device, appliance, subnode>>
      [] state = "NewestEventsMap" ->
              /\ state' = "DeviceMap"
              /\ emitted' = DevEndMapCallbacks(state, device, subnode)
              /\ UNCHANGED <<result, node_key, state_stack, unknown_map_depth,
                             unknown_array_depth, device, appliance, subnode>>
      [] state \in NewestEventMapStates ->
              /\ state' = "NewestEventsMap"
              /\ emitted' = DevEndMapCallbacks(state, device, subnode)
              /\ UNCHANGED <<result, node_key, state_stack, unknown_map_depth,
                             unknown_array_depth, device, appliance, subnode>>
      [] state = "UnknownMapArray" ->
              /\ unknown_map_depth' = unknown_map_depth - 1
              /\ state' = UnknownCloseTarget(unknown_array_depth, unknown_map_depth - 1)
              /\ emitted' = DevEndMapCallbacks(state, device, subnode)
              /\ UNCHANGED <<result, node_key, state_stack, unknown_array_depth,
                             device, appliance, subnode>>
      [] OTHER -> DevUnexpectedNode

devices_Key(key) ==
    /\ node_key' = KeyStore(key, node_key)
    /\ emitted' = <<>>
    /\ UNCHANGED <<result, state, state_stack, unknown_map_depth,
                   unknown_array_depth, device, appliance, subnode>>

(* device.rs: match (node_key, value) of (DeviceMap, Value). *)
DeviceMapValue(dev, key, value, opts) ==
    CASE key = "Name" /\ IsString(value) ->
             SetField(dev, "name", copy_string_option(value.v, MAX_DEVICE_NAME_LEN, opts))
      [] key = "Id" /\ IsString(value) ->
             SetField(dev, "id", Uuid_from_str(value.v))
      [] key = "CreatedAt" /\ IsString(value) ->
             SetField(dev, "created_at", Timestamp_from_str(value.v))
      [] key = "UpdatedAt" /\ IsString(value) ->
             SetField(dev, "updated_at", Timestamp_from_str(value.v))
      [] key = "MacAddress" /\ IsString(value) ->
             SetField(dev, "mac_address", MacAddress_from_str(value.v))
      [] key = "BtMacAddress" /\ IsString(value) ->
             SetField(dev, "bt_mac_address", MacAddress_from_str(value.v))
      [] key = "SerialNumber" /\ IsString(value) ->
             SetField(dev, "serial_number", copy_string_option(value.v, SERIAL_NUMBER_LEN, opts))
      [] key = "FirmwareVersion" /\ IsString(value) ->
             SetField(dev, "firmware_version",
                      copy_string_option(value.v, MAX_FIRMWARE_VERSION_LEN, opts))
      [] key = "TemperatureOffset" /\ IsNumber(value) ->
             SetField(dev, "temperature_offset", Ok(Number_into_f32(value)))
      [] key = "HumidityOffset" /\ IsNumber(value) ->
             SetField(dev, "humidity_offset", Ok(Number_into_f32(value)))
      [] OTHER -> Ok(dev)

(* Mutant: superuser is assigned from a value that is no boolean too. *)
UserMapValue_SuperUserAnyKind(user, key, value, opts) ==
    CASE key = "Id" /\ IsString(value) ->
             SetField(user, "id", Uuid_from_str(value.v))
      [] key = "NickName" /\ IsString(value) ->
             SetField(user, "nickname", copy_string_option(value.v, MAX_NICKNAME_LEN, opts))
      [] key = "SuperUser" /\ ~IsString(value) ->
             SetField(user, "superuser", Ok(IsBoolean(value) => value.v))
      [] OTHER -> Ok(user)

(* device.rs: match (node_key, value) of (UserMap, Value). *)
UserMapValue(user, key, value, opts) ==
    CASE key = "Id" /\ IsString(value) ->
             SetField(user, "id", Uuid_from_str(value.v))
      [] key = "NickName" /\ IsString(value) ->
             SetField(user, "nickname", copy_string_option(value.v, MAX_NICKNAME_LEN, opts))
      [] key = "SuperUser" /\ IsBoolean(value) ->
             SetField(user, "superuser", Ok(value.v))
      [] OTHER -> Ok(user)

(* device.rs: match (node_key.take(), value) of (NewestEventMap(t), Value). *)
SensorValueValue(sensor_value, key, value) ==
    CASE key = "Val" /\ IsNumber(value) ->
             SetField(sensor_value, "val", Ok(Number_into_f32(value)))
      [] key = "CreatedAt" /\ IsString(value) ->
             SetField(sensor_value, "created_at", Timestamp_from_str(value.v))
      [] OTHER -> Ok(sensor_value)

(* The (.., JsonNode::Value(value)) arms of read_devices, in match order. *)
devices_Value(value) ==
    /\ emitted' = <<>>
    /\ UNCHANGED <<state, state_stack, unknown_map_depth, unknown_array_depth, appliance>>
    /\ CASE state = "DeviceMap" ->
              LET r == DeviceMapValue(device, node_key, value, options)
              IN  /\ node_key' = NoKey
                  /\ UNCHANGED subnode
                  /\ IF r.err = "None"
                     THEN /\ device' = r.val
                          /\ UNCHANGED result
                     ELSE /\ Fail(r.err)
                          /\ UNCHANGED device
         [] state = "UserMap" ->
              IF subnode.kind # "User"
              THEN UNCHANGED <<result, node_key, device, subnode>>
              ELSE LET r == UserMapValue(subnode.val, node_key, value, options)
                   IN  /\ node_key' = NoKey
                       /\ UNCHANGED device
                       /\ IF r.err = "None"
                          THEN /\ subnode' = SubNode("User", r.val)
                               /\ UNCHANGED result
                          ELSE /\ Fail(r.err)
                               /\ UNCHANGED subnode
         [] state \in NewestEventMapStates ->
              IF subnode.kind # "NewestEvents"
              THEN UNCHANGED <<result, node_key, device, subnode>>
              ELSE IF subnode.val[NewestEventField(state)] = <<>>
              THEN /\ Fail("Panic")
                   /\ UNCHANGED <<node_key, device, subnode>>
              ELSE LET f == NewestEventField(state)
                       r == SensorValueValue(subnode.val[f][1], node_key, value)
                   IN  /\ node_key' = NoKey
                       /\ UNCHANGED device
                       /\ IF r.err = "None"
                          THEN /\ subnode' =
                                    SubNode("NewestEvents",
                                            [subnode.val EXCEPT ![f] = <<r.val>>])
                               /\ UNCHANGED result
                          ELSE /\ Fail(r.err)
                               /\ UNCHANGED subnode
         [] state = "UnknownMapArray" ->
              UNCHANGED <<result, node_key, device, subnode>>
         [] OTHER ->
              /\ Fail("UnexpectedNode")
              /\ UNCHANGED <<node_key, device, subnode>>

(***************************************************************************)
(* The document the tokenizer reads, as far as the events tell it: the     *)
(* classes of the open containers, by their place in the API's document    *)
(* shape (top-level array of records; sub-records under their wire names). *)
(***************************************************************************)
NoDocKey == <<"NoDocKey">>

DocMapClasses ==
    {"Record", "Device", "Model", "SmartMeter", "EchonetLiteProperty",
     "User", "NewestEvents", "Sensor", "OtherMap"}
DocArrayClasses == {"Top", "Properties", "Users", "OtherArray"}

DocTop == IF doc_path = <<>> THEN "Root" ELSE doc_path[Len(doc_path)]

SensorWireNames == {W_te, W_hu, W_il, W_mo}

(* The class of an object opened under key in a container of class parent. *)
DocMapClass(sch, parent, key) ==
    CASE parent = "Top" -> "Record"
      [] sch = "appliances" /\ parent = "Record" /\ key = W_device -> "Device"
      [] sch = "appliances" /\ parent = "Record" /\ key = W_model -> "Model"
      [] sch = "appliances" /\ parent = "Record" /\ key = W_smart_meter -> "SmartMeter"
      [] sch = "appliances" /\ parent = "Properties" -> "EchonetLiteProperty"
      [] sch = "devices" /\ parent = "Users" -> "User"
      [] sch = "devices" /\ parent = "Record" /\ key = W_newest_events -> "NewestEvents"
      [] sch = "devices" /\ parent = "NewestEvents" /\ key \in SensorWireNames -> "Sensor"
      [] OTHER -> "OtherMap"

(* The class of an array opened under key in a container of class parent. *)
DocArrayClass(sch, parent, key) ==
    CASE parent = "Root" -> "Top"
      [] sch = "appliances" /\ parent = "SmartMeter" /\ key = W_echonetlite_properties ->
             "Properties"
      [] sch = "devices" /\ parent = "Record" /\ key = W_users -> "Users"
      [] OTHER -> "OtherArray"

(* The callback discriminant the closing of a container of class c calls for:
   "None" for a record, the sub-record kind for a sub-record, <<>> for none. *)
DocClosing(c) ==
    CASE c = "Record" -> <<"None">>
      [] c \in {"Device", "Model", "EchonetLiteProperty", "User", "NewestEvents"} -> <<c>>
      [] OTHER -> <<>>

(* What a log keeps of a callback: whether the second view was present. *)
LogEntry(kind) == IF kind = "None" THEN "None" ELSE "Some"
LogEntries(kinds) == [i \in 1..Len(kinds) |-> LogEntry(kinds[i])]

(* The event continues a well-formed JSON document. *)
DocLegal(ev) ==
    /\ ~doc_done
    /\ CASE DocTop = "Root" -> ev.type \in {"StartArray", "StartMap", "Value"}
         [] DocTop \in DocArrayClasses ->
                ev.type \in {"StartArray", "StartMap", "Value", "EndArray"}
         [] DocTop \in DocMapClasses /\ doc_key = NoDocKey ->
                \/ ev.type = "EndMap"
                \/ ev.type = "Key" /\ IsString(ev.value)
         [] OTHER -> ev.type \in {"StartArray", "StartMap", "Value"}

(* The scalar fields of a device object, by wire name. *)
DocDeviceField(key) ==
    CASE key = W_name -> "name"
      [] key = W_id -> "id"
      [] key = W_created_at -> "created_at"
      [] key = W_updated_at -> "updated_at"
      [] key = W_mac_address -> "mac_address"
      [] key = W_bt_mac_address -> "bt_mac_address"
      [] key = W_serial_number -> "serial_number"
      [] key = W_firmware_version -> "firmware_version"
      [] key = W_temperature_offset -> "temperature_offset"
      [] key = W_humidity_offset -> "humidity_offset"
      [] OTHER -> "None"

DeviceFieldNames ==
    {"name", "id", "created_at", "updated_at", "mac_address", "bt_mac_address",
     "serial_number", "firmware_version", "temperature_offset", "humidity_offset"}

(* No field seen yet: each field is <<>>, or <<x>> once value x was seen. *)
NoDocFields == [f \in DeviceFieldNames |-> <<>>]

DocFieldsAfterValue(fields, key, value, opts) ==
    LET f == DocDeviceField(key)
        r == DeviceMapValue(DefaultDevice, ModelNodeKey_try_from(key), value, opts)
        kind_matches == IF f \in {"temperature_offset", "humidity_offset"}
                        THEN IsNumber(value) ELSE IsString(value)
    IN  IF f # "None" /\ kind_matches /\ r.err = "None"
        THEN [fields EXCEPT ![f] = <<r.val[f]>>]
        ELSE fields

DocReset ==
    /\ wf' = FALSE
    /\ doc_path' = <<>>
    /\ doc_key' = NoDocKey
    /\ doc_done' = FALSE
    /\ doc_log' = <<>>
    /\ doc_fields' = NoDocFields
    /\ doc_closed' = "None"

DocPop ==
    /\ doc_log' = doc_log \o LogEntries(DocClosing(DocTop))
    /\ doc_path' = SubSeq(doc_path, 1, Len(doc_path) - 1)
    /\ doc_done' = (Len(doc_path) = 1)
    /\ doc_key' = NoDocKey
    /\ doc_closed' = DocTop
    /\ UNCHANGED <<wf, doc_fields>>

Document(ev) ==
    IF ~wf \/ ~DocLegal(ev) THEN DocReset
    ELSE CASE ev.type = "StartArray" ->
                /\ doc_path' = Append(doc_path, DocArrayClass(schema, DocTop, doc_key))
                /\ doc_key' = NoDocKey
                /\ doc_closed' = "None"
                /\ UNCHANGED <<wf, doc_done, doc_log, doc_fields>>
           [] ev.type = "StartMap" ->
                /\ doc_path' = Append(doc_path, DocMapClass(schema, DocTop, doc_key))
                /\ doc_key' = NoDocKey
                /\ doc_fields' = IF DocMapClass(schema, DocTop, doc_key) = "Record"
                                 THEN NoDocFields ELSE doc_fields
                /\ doc_closed' = "None"
                /\ UNCHANGED <<wf, doc_done, doc_log>>
           [] ev.type \in {"EndArray", "EndMap"} -> DocPop
           [] ev.type = "Key" ->
                /\ doc_key' = ev.value.v
                /\ doc_closed' = "None"
                /\ UNCHANGED <<wf, doc_path, doc_done, doc_log, doc_fields>>
           [] ev.type = "Value" ->
                /\ doc_key' = NoDocKey
                /\ doc_done' = (doc_path = <<>>)
                /\ doc_fields' = IF schema = "devices" /\ DocTop = "Record"
                                 THEN DocFieldsAfterValue(doc_fields, doc_key, ev.value, options)
                                 ELSE doc_fields
                /\ doc_closed' = "None"
                /\ UNCHANGED <<wf, doc_path, doc_log>>

(* How far the events so far spell the document [ ]. *)
DocShapeAfter(shape, ev) ==
    CASE shape = "Nothing" /\ ev.type = "StartArray" -> "Opened"
      [] shape = "Opened" /\ ev.type = "EndArray" -> "EmptyArray"
      [] OTHER -> "Other"

(* The parent record a sub-record-absent callback showed for the open record. *)
NoneCallbacks(cbs) == SelectSeq(cbs, LAMBDA c : c.sub.kind = "None")
ObservedAfter(observed, cbs, opens_record) ==
    IF NoneCallbacks(cbs) # <<>>
    THEN <<NoneCallbacks(cbs)[Len(NoneCallbacks(cbs))].parent>>
    ELSE IF opens_record THEN <<>> ELSE observed

(***************************************************************************)
(* The driver loop: parser.parse hands one event to the closure.           *)
(***************************************************************************)
(* Keys and values the tokenizer is made to deliver. *)
KeyChoices(sch) ==
    IF sch = "appliances"
    THEN {StringValue(W_name), StringValue(W_device), StringValue(W_model),
          StringValue(W_smart_meter), StringValue(W_echonetlite_properties),
          StringValue(S_unknown_key), I32Value(1)}
    ELSE {StringValue(W_name), StringValue(W_users), StringValue(W_newest_events),
          StringValue(W_te), StringValue(S_unknown_key), I32Value(1)}

ValueChoices == {StringValue(S_plain), I32Value(1), NullValue}

(* ParserOptions has one constructor, Default: truncate_too_long_string = true. *)
OptionsChoices == {TRUE}

CallbackKinds(cbs) == [i \in 1..Len(cbs) |-> cbs[i].sub.kind]

Closure(ev) ==
    IF schema = "appliances"
    THEN CASE ev.type = "StartArray" -> appliances_StartArray
           [] ev.type = "StartMap" -> appliances_StartMap
           [] ev.type = "EndArray" -> appliances_EndArray
           [] ev.type = "EndMap" -> appliances_EndMap
           [] ev.type = "Key" -> appliances_Key(ev.value)
           [] ev.type = "Value" -> appliances_Value(ev.value)
    ELSE CASE ev.type = "StartArray" -> devices_StartArray
           [] ev.type = "StartMap" -> devices_StartMap
           [] ev.type = "EndArray" -> devices_EndArray
           [] ev.type = "EndMap" -> devices_EndMap
           [] ev.type = "Key" -> devices_Key(ev.value)
           [] ev.type = "Value" -> devices_Value(ev.value)

(* Mutant: the loop goes on after a transition has returned an error. *)
Feed_AfterError(ev) ==
    /\ Len(cb_log) < MaxLog
    /\ Len(doc_log) < MaxLog
    /\ Closure(ev)
    /\ Document(ev)
    /\ last_event' = ev
    /\ cb_log' = cb_log \o LogEntries(CallbackKinds(emitted'))
    /\ doc_shape' = DocShapeAfter(doc_shape, ev)
    /\ doc_observed' = <<>>
    /\ UNCHANGED <<schema, options, family, conv_call, conv_ret>>

Feed(ev) ==
    /\ result = "Running"
    /\ Len(cb_log) < MaxLog
    /\ Len(doc_log) < MaxLog
    /\ Closure(ev)
    /\ Document(ev)
    /\ last_event' = ev
    /\ cb_log' = cb_log \o LogEntries(CallbackKinds(emitted'))
    /\ doc_shape' = DocShapeAfter(doc_shape, ev)
    /\ doc_observed' =
         IF wf'
         THEN ObservedAfter(doc_observed, emitted',
                            ev.type = "StartMap" /\ DocTop' = "Record")
         ELSE <<>>
    /\ UNCHANGED <<schema, options, family, conv_call, conv_ret>>

(* The nesting depth the machine tracks. *)
DevKnownDepth(s) ==
    CASE s = "Start" -> 0
      [] s = "DevicesArray" -> 1
      [] s \in {"DeviceMap", "UnknownMapArray"} -> 2
      [] s \in {"UsersArray", "NewestEventsMap"} -> 3
      [] OTHER -> 4

Depth ==
    IF schema = "appliances" THEN Len(state_stack)
    ELSE DevKnownDepth(state) + unknown_map_depth + unknown_array_depth

(* read_devices counts unknown containers without a limit: the depth fed is capped. *)
OpenArrayAllowed ==
    schema = "devices" => unknown_map_depth + unknown_array_depth < MaxUnknownDepth
OpenMapAllowed ==
    IF schema = "devices"
    THEN unknown_map_depth + unknown_array_depth < MaxUnknownDepth /\ Depth < MaxMixedDepth
    ELSE Depth < MaxMixedDepth \/ StackFull(state_stack)
CloseArrayAllowed == schema = "devices" => unknown_array_depth > -MaxUnderflow
CloseMapAllowed == schema = "devices" => unknown_map_depth > -MaxUnderflow

StartArray == OpenArrayAllowed /\ Feed(JsonNode("StartArray", NoValue))
StartMap == OpenMapAllowed /\ Feed(JsonNode("StartMap", NoValue))
EndArray == CloseArrayAllowed /\ Feed(JsonNode("EndArray", NoValue))
EndMap == CloseMapAllowed /\ Feed(JsonNode("EndMap", NoValue))
Key == \E k \in KeyChoices(schema) : Feed(JsonNode("Key", k))
Value == \E x \in ValueChoices : Feed(JsonNode("Value", x))

(* parser.parse reports the end of the input: the operation returns Ok(()).
   The input is made to end between top-level values. *)
EndOfInput ==
    /\ result = "Running"
    /\ state = "Start"
    /\ result' = "Ok"
    /\ last_event' = JsonNode("EndOfInput", NoValue)
    /\ emitted' = <<>>
    /\ wf' = (wf /\ doc_done)
    /\ doc_closed' = "None"
    /\ UNCHANGED <<schema, options, cb_log, doc_path, doc_key, doc_done, doc_log,
                   doc_fields, doc_shape, doc_observed, family, conv_call, conv_ret>>
    /\ UNCHANGED mvars

(* The locals of a decode operation when it starts. *)
InitState ==
    /\ schema \in {"devices", "appliances"}
    /\ state = "Start"
    /\ node_key = NoKey
    /\ state_stack = <<>>
    /\ unknown_map_depth = 0
    /\ unknown_array_depth = 0
    /\ device = DefaultDevice
    /\ appliance = DefaultAppliance
    /\ subnode = IF schema = "devices" THEN SubNode("User", DefaultUser)
                 ELSE SubNode("Device", DefaultDevice)
    /\ result = "Running"
    /\ last_event = NoEvent
    /\ emitted = <<>>
    /\ cb_log = <<>>
    /\ wf = TRUE
    /\ doc_path = <<>>
    /\ doc_key = NoDocKey
    /\ doc_done = FALSE
    /\ doc_log = <<>>
    /\ doc_fields = NoDocFields
    /\ doc_closed = "None"
    /\ doc_shape = "Nothing"
    /\ doc_observed = <<>>
    /\ conv_call = NoCall
    /\ conv_ret = NoCall

Init == options \in OptionsChoices /\ family = "structure" /\ InitState

Next == StartArray \/ StartMap \/ EndArray \/ EndMap \/ Key \/ Value \/ EndOfInput

Spec == Init /\ [][Next]_vars

(***************************************************************************)
(* The scalar converters called on their own, on inputs from bounded sets. *)
(***************************************************************************)
(* Longest string and largest capacity N given to copy_string_option. *)
MaxStrLen == 4
MaxCapacity == 3

(* Characters of 1, 2 and 3 bytes in UTF-8. *)
ConvChars == {"a", "U+00E9", "U+3066"}
ConvStrings == UNION {[1..k -> ConvChars] : k \in 0..MaxStrLen}

(* Both values of truncate_too_long_string. *)
PolicyChoices == {TRUE, FALSE}

(* MAC-address strings: the octets of the fixture f0:08:d1:00:11:22 with at
   most one of them replaced (by another octet, by two characters that are
   no octet, or by a single digit), any delimiter at each of the five
   places, and nothing or some more characters after the sixth octet. *)
FixtureOctets ==
    <<(<<"f", "0">>), (<<"0", "8">>), (<<"d", "1">>), (<<"0", "0">>),
      (<<"1", "1">>), (<<"2", "2">>)>>
MacOctetChoices ==
    {<<"D", "1">>, <<"F", "0">>, <<"g", "1">>, <<"1", "G">>, <<"0", ":">>, <<"2">>}
MacDelimiterChoices == {":", "-", "."}
MacOctetInputs ==
    {FixtureOctets} \cup
    {[FixtureOctets EXCEPT ![k] = o] : k \in 1..6, o \in MacOctetChoices}
MacTailChoices == {<<>>, <<"z">>, <<":", "3", "3">>}
MacString(octets, delims) ==
    octets[1] \o <<delims[1]>> \o octets[2] \o <<delims[2]>> \o octets[3]
        \o <<delims[3]>> \o octets[4] \o <<delims[4]>> \o octets[5]
        \o <<delims[5]>> \o octets[6]

ConvIdle ==
    /\ conv_call = NoCall
    /\ last_event = NoEvent
    /\ result = "Running"

Call_copy_string_option ==
    /\ ConvIdle
    /\ \E s \in ConvStrings, n \in 0..MaxCapacity :
          /\ conv_call' = [NoCall EXCEPT !.op = "copy_string_option", !.s = s, !.n = n]
          /\ conv_ret' = copy_string_option(s, n, options)
    /\ UNCHANGED <<schema, options, family, result, last_event, emitted, cb_log>>
    /\ UNCHANGED mvars
    /\ UNCHANGED gvars

Call_MacAddress_from_str ==
    /\ ConvIdle
    /\ \E octets \in MacOctetInputs, delims \in [1..5 -> MacDelimiterChoices],
          tail \in MacTailChoices :
          /\ conv_call' = [NoCall EXCEPT !.op = "MacAddress_from_str",
                                         !.s = MacString(octets, delims) \o tail,
                                         !.octets = octets, !.delims = delims]
          /\ conv_ret' = MacAddress_from_str(MacString(octets, delims) \o tail)
    /\ UNCHANGED <<schema, options, family, result, last_event, emitted, cb_log>>
    /\ UNCHANGED mvars
    /\ UNCHANGED gvars

InitConv == options \in PolicyChoices /\ family = "converters" /\ InitState

NextConv == Call_copy_string_option \/ Call_MacAddress_from_str

SpecConv == InitConv /\ [][NextConv]_vars

(***************************************************************************)
(* The decode operations on documents that exercise the fields: every wire *)
(* name as a key, the values that matter to the key they follow, both      *)
(* overflow policies, and containers nested up to MaxFieldDepth.           *)
(***************************************************************************)
MaxFieldDepth == 3

WireNames ==
    {W_name, W_id, W_created_at, W_updated_at, W_mac_address, W_bt_mac_address,
     W_serial_number, W_firmware_version, W_temperature_offset, W_humidity_offset,
     W_users, W_nickname, W_superuser, W_newest_events, W_te, W_hu, W_il, W_mo,
     W_val, W_device, W_type, W_model, W_manufacturer, W_country, W_remote_name,
     W_series, W_image, W_smart_meter, W_echonetlite_properties, W_epc}

(* A string of 15 characters: longer than SerialNumber and country hold. *)
S_long == <<"R", "e", "m", "o", "-", "E", "-", "l", "i", "t", "e", "/", "1", ".", "7">>
S_mac_hyphen == <<"C", "8", "-", "2", "B", "-", "9", "6", "-", "0", "0", "-", "1", "1", "-", "2", "2">>
S_mac_dot == <<"c", "8", ".", "2", "b", ".", "9", "6", ".", "0", "0", ".", "1", "1", ".", "2", "2">>
S_mac_not_hex == <<"c", "8", ":", "2", "b", ":", "9", "g", ":", "0", "0", ":", "1", "1", ":", "2", "2">>
S_type_unknown == <<"U", "N", "K", "N", "O", "W", "N", "_", "T", "Y", "P", "E">>
S_type_lower == <<"t", "v">>
TypeTags ==
    {<<"A", "C">>,
     <<"T", "V">>,
     <<"L", "I", "G", "H", "T">>,
     <<"I", "R">>,
     <<"E", "L", "_", "S", "M", "A", "R", "T", "_", "M", "E", "T", "E", "R">>,
     <<"E", "L", "_", "E", "L", "E", "C", "T", "R", "I", "C", "_", "W", "A", "T", "E", "R", "_", "H", "E", "A", "T", "E", "R">>,
     <<"E", "L", "_", "P", "O", "W", "E", "R", "_", "D", "I", "S", "T", "_", "M", "E", "T", "E", "R">>,
     <<"E", "L", "_", "E", "V", "C", "D">>,
     <<"E", "L", "_", "S", "O", "L", "A", "R", "_", "P", "O", "W", "E", "R">>,
     <<"E", "L", "_", "S", "T", "O", "R", "A", "G", "E", "_", "B", "A", "T", "T", "E", "R", "Y">>,
     <<"Q", "R", "I", "O", "_", "L", "O", "C", "K">>,
     <<"M", "O", "R", "N", "I", "N", "_", "P", "L", "U", "S">>}

FieldFamilies ==
    {"keys", "mac", "type", "strings", "sensors", "subrecords", "malformed", "kinds",
     "epc"}

(* How deep the documents of a family nest; the keys are fed directly inside
   the records of the top-level array. *)
FamilyDepth(f) ==
    CASE f = "sensors" -> MaxFieldDepth + 1
      [] f = "subrecords" -> MaxFieldDepth + 2
      [] f = "malformed" -> MaxFieldDepth + 1
      [] f = "keys" -> 2
      [] f = "kinds" -> MaxFieldDepth + 1
      [] f = "epc" -> MaxFieldDepth + 2
      [] OTHER -> MaxFieldDepth

(* The keys of a family: every wire name and two strings that are none; or
   the keys of the fields and sub-records the family is about. *)
FamilyKeys(f, sch) ==
    CASE f = "keys" -> WireNames \cup {S_unknown_key, S_upper_name}
      [] f = "mac" -> {W_mac_address, W_bt_mac_address, W_device, S_unknown_key}
      [] f = "type" -> {W_type, W_model, S_unknown_key}
      [] f = "strings" -> {W_serial_number, W_country, W_device, W_model}
      [] f = "sensors" ->
             {W_newest_events, W_te, W_hu, W_il, W_mo, W_val, S_unknown_key}
      [] f = "subrecords" ->
             IF sch = "devices"
             THEN {W_users, W_nickname, W_newest_events, W_te, W_val}
             ELSE {W_device, W_model, W_name, W_smart_meter,
                   W_echonetlite_properties, W_epc}
      [] f = "kinds" ->
             IF sch = "devices"
             THEN {W_name, W_users, W_superuser, W_newest_events, W_te, W_val}
             ELSE {W_name, W_model, W_id}
      [] f = "epc" -> {W_smart_meter, W_echonetlite_properties, W_epc}
      [] OTHER -> {W_name, W_newest_events, S_unknown_key}

(* One value of each scalar kind, fed after every key of the family "kinds". *)
KindValueChoices ==
    {StringValue(S_plain), I32Value(1), F32Value(15), BooleanValue(TRUE), NullValue}

(* Numbers fed after every key of the family "epc": the ends of the 32-bit
   signed range, the integers next to zero, and a number of the floating kind. *)
EpcValueChoices ==
    {I32Value(-2147483647 - 1), I32Value(-1), I32Value(1), I32Value(2147483647),
     F32Value(15)}

(* The values fed after key: those its conversion tells apart. *)
FieldValueChoices(key) ==
    CASE key \in {W_mac_address, W_bt_mac_address} ->
             {StringValue(S_mac), StringValue(S_mac_hyphen), StringValue(S_mac_dot),
              StringValue(S_mac_not_hex)}
      [] key = W_type ->
             {StringValue(t) : t \in TypeTags \cup {S_type_unknown, S_type_lower}}
      [] key \in {W_name, W_nickname} -> {StringValue(S_plain)}
      [] key \in {W_serial_number, W_country} ->
             {StringValue(S_plain), StringValue(S_long)}
      [] key \in {W_epc, W_val} -> {I32Value(1)}
      [] OTHER -> {NullValue}

(* All families but one spell well-formed documents. *)
FeedFamily(ev) ==
    /\ family = "malformed" \/ (wf /\ DocLegal(ev))
    /\ Feed(ev)

FieldsOpenAllowed ==
    /\ Depth < FamilyDepth(family)
    /\ Len(doc_path) < FamilyDepth(family)

Fields_StartArray == FieldsOpenAllowed /\ FeedFamily(JsonNode("StartArray", NoValue))
Fields_StartMap == FieldsOpenAllowed /\ FeedFamily(JsonNode("StartMap", NoValue))
Fields_EndArray == CloseArrayAllowed /\ FeedFamily(JsonNode("EndArray", NoValue))
Fields_EndMap == CloseMapAllowed /\ FeedFamily(JsonNode("EndMap", NoValue))
Fields_Key ==
    \E k \in FamilyKeys(family, schema) : FeedFamily(JsonNode("Key", StringValue(k)))
Fields_Value ==
    \E x \in (CASE family = "kinds" -> KindValueChoices
                 [] family = "epc" -> EpcValueChoices
                 [] OTHER -> FieldValueChoices(doc_key)) :
        FeedFamily(JsonNode("Value", x))

InitFields ==
    /\ family \in FieldFamilies
    /\ options \in (IF family = "strings" THEN PolicyChoices ELSE OptionsChoices)
    /\ InitState

NextFields ==
    \/ Fields_StartArray \/ Fields_StartMap \/ Fields_EndArray \/ Fields_EndMap
    \/ Fields_Key \/ Fields_Value \/ EndOfInput

SpecFields == InitFields /\ [][NextFields]_vars

(***************************************************************************)
(* lib.rs: the read_devices of the crate root, the earlier generation of   *)
(* the device state machine.  It takes no ParserOptions, copies strings    *)
(* with String::from, knows the device wire names only, and has no arm for *)
(* a scalar value in UnknownMapArray.  Its other arms are those of         *)
(* device.rs, token for token.                                             *)
(***************************************************************************)
lib_MAX_FIRMWARE_VERSION_LEN == 32
lib_MAX_NICKNAME_LEN == 32
lib_MAX_DEVICE_NAME_LEN == 48
lib_SERIAL_NUMBER_LEN == 14

(* lib.rs: the members of enum DeviceNodeKey. *)
lib_DeviceNodeKeys ==
    {"Name", "Id", "CreatedAt", "UpdatedAt", "MacAddress", "BtMacAddress",
     "SerialNumber", "FirmwareVersion", "TemperatureOffset", "HumidityOffset",
     "Users", "NickName", "SuperUser", "NewestEvents", "Te", "Hu", "Il", "Mo", "Val"}

(* lib.rs: DeviceNodeKey::try_from, the same literals as the first nineteen
   arms of ModelNodeKey::try_from. *)
lib_DeviceNodeKey_try_from(s) ==
    LET k == ModelNodeKey_try_from(s)
    IN  IF k \in lib_DeviceNodeKeys THEN k ELSE NoKey

(* heapless String<N>::from(&str): push_str(s).unwrap(), a panic when s
   does not fit in the n bytes. *)
lib_String_from(s, n) == IF ByteLen(s) <= n THEN Ok(s) ELSE Err("Panic")

(* lib.rs: match (node_key, value) of (DeviceMap, Value). *)
lib_DeviceMapValue(dev, key, value) ==
    CASE key = "Name" /\ IsString(value) ->
             SetField(dev, "name", lib_String_from(value.v, lib_MAX_DEVICE_NAME_LEN))
      [] key = "Id" /\ IsString(value) ->
             SetField(dev, "id", Uuid_from_str(value.v))
      [] key = "CreatedAt" /\ IsString(value) ->
             SetField(dev, "created_at", Timestamp_from_str(value.v))
      [] key = "UpdatedAt" /\ IsString(value) ->
             SetField(dev, "updated_at", Timestamp_from_str(value.v))
      [] key = "MacAddress" /\ IsString(value) ->
             SetField(dev, "mac_address", MacAddress_from_str(value.v))
      [] key = "BtMacAddress" /\ IsString(value) ->
             SetField(dev, "bt_mac_address", MacAddress_from_str(value.v))
      [] key = "SerialNumber" /\ IsString(value) ->
             SetField(dev, "serial_number",
                      lib_String_from(value.v, lib_SERIAL_NUMBER_LEN))
      [] key = "FirmwareVersion" /\ IsString(value) ->
             SetField(dev, "firmware_version",
                      lib_String_from(value.v, lib_MAX_FIRMWARE_VERSION_LEN))
      [] key = "TemperatureOffset" /\ IsNumber(value) ->
             SetField(dev, "temperature_offset", Ok(Number_into_f32(value)))
      [] key = "HumidityOffset" /\ IsNumber(value) ->
             SetField(dev, "humidity_offset", Ok(Number_into_f32(value)))
      [] OTHER -> Ok(dev)

(* lib.rs: match (node_key, value) of (UserMap, Value). *)
lib_UserMapValue(user, key, value) ==
    CASE key = "Id" /\ IsString(value) ->
             SetField(user, "id", Uuid_from_str(value.v))
      [] key = "NickName" /\ IsString(value) ->
             SetField(user, "nickname", lib_String_from(value.v, lib_MAX_NICKNAME_LEN))
      [] key = "SuperUser" /\ IsBoolean(value) ->
             SetField(user, "superuser", Ok(value.v))
      [] OTHER -> Ok(user)

(* lib.rs: the (map_state, JsonNode::Key(key)) arm. *)
lib_devices_Key(key) ==
    /\ node_key' = (IF IsString(key) THEN lib_DeviceNodeKey_try_from(key.v) ELSE node_key)
    /\ emitted' = <<>>
    /\ UNCHANGED <<result, state, state_stack, unknown_map_depth,
                   unknown_array_depth, device, appliance, subnode>>

(* The (.., JsonNode::Value(value)) arms of lib.rs' read_devices, in match
   order.  No arm names UnknownMapArray: a scalar there reaches the last
   arm, (state, json_node), as in every other state without a Value arm. *)
lib_devices_Value(value) ==
    /\ emitted' = <<>>
    /\ UNCHANGED <<state, state_stack, unknown_map_depth, unknown_array_depth, appliance>>
    /\ CASE state = "DeviceMap" ->
              LET r == lib_DeviceMapValue(device, node_key, value)
              IN  /\ node_key' = NoKey
                  /\ UNCHANGED subnode
                  /\ IF r.err = "None"
                     THEN /\ device' = r.val
                          /\ UNCHANGED result
                     ELSE /\ Fail(r.err)
                          /\ UNCHANGED device
         [] state = "UserMap" ->
              IF subnode.kind # "User"
              THEN UNCHANGED <<result, node_key, device, subnode>>
              ELSE LET r == lib_UserMapValue(subnode.val, node_key, value)
                   IN  /\ node_key' = NoKey
                       /\ UNCHANGED device
                       /\ IF r.err = "None"
                          THEN /\ subnode' = SubNode("User", r.val)
                               /\ UNCHANGED result
                          ELSE /\ Fail(r.err)
                               /\ UNCHANGED subnode
         [] state \in NewestEventMapStates ->
              IF subnode.kind # "NewestEvents"
              THEN UNCHANGED <<result, node_key, device, subnode>>
              ELSE IF subnode.val[NewestEventField(state)] = <<>>
              THEN /\ Fail("Panic")
                   /\ UNCHANGED <<node_key, device, subnode>>
              ELSE LET f == NewestEventField(state)
                       r == SensorValueValue(subnode.val[f][1], node_key, value)
                   IN  /\ node_key' = NoKey
                       /\ UNCHANGED device
                       /\ IF r.err = "None"
                          THEN /\ subnode' =
                                    SubNode("NewestEvents",
                                            [subnode.val EXCEPT ![f] = <<r.val>>])
                               /\ UNCHANGED result
                          ELSE /\ Fail(r.err)
                               /\ UNCHANGED subnode
         [] OTHER ->
              /\ Fail("UnexpectedNode")
              /\ UNCHANGED <<node_key, device, subnode>>

(* The closure lib.rs' read_devices gives to parser.parse. *)
lib_Closure(ev) ==
    CASE ev.type = "StartArray" -> devices_StartArray
      [] ev.type = "StartMap" -> devices_StartMap
      [] ev.type = "EndArray" -> devices_EndArray
      [] ev.type = "EndMap" -> devices_EndMap
      [] ev.type = "Key" -> lib_devices_Key(ev.value)
      [] ev.type = "Value" -> lib_devices_Value(ev.value)

lib_Feed(ev) ==
    /\ result = "Running"
    /\ Len(cb_log) < MaxLog
    /\ Len(doc_log) < MaxLog
    /\ lib_Closure(ev)
    /\ Document(ev)
    /\ last_event' = ev
    /\ cb_log' = cb_log \o LogEntries(CallbackKinds(emitted'))
    /\ doc_shape' = DocShapeAfter(doc_shape, ev)
    /\ doc_observed' =
         IF wf'
         THEN ObservedAfter(doc_observed, emitted',
                            ev.type = "StartMap" /\ DocTop' = "Record")
         ELSE <<>>
    /\ UNCHANGED <<schema, options, family, conv_call, conv_ret>>

lib_StartArray == OpenArrayAllowed /\ lib_Feed(JsonNode("StartArray", NoValue))
lib_StartMap == OpenMapAllowed /\ lib_Feed(JsonNode("StartMap", NoValue))
lib_EndArray == CloseArrayAllowed /\ lib_Feed(JsonNode("EndArray", NoValue))
lib_EndMap == CloseMapAllowed /\ lib_Feed(JsonNode("EndMap", NoValue))
lib_Key == \E k \in KeyChoices("devices") : lib_Feed(JsonNode("Key", k))
lib_Value == \E x \in ValueChoices : lib_Feed(JsonNode("Value", x))

(* lib.rs' read_devices has no options parameter: the variable is pinned. *)
InitLib == schema = "devices" /\ options \in OptionsChoices /\ family = "lib" /\ InitState

NextLib ==
    \/ lib_StartArray \/ lib_StartMap \/ lib_EndArray \/ lib_EndMap
    \/ lib_Key \/ lib_Value \/ EndOfInput

SpecLib == InitLib /\ [][NextLib]_vars

(***************************************************************************)
(* Vocabulary of the properties.  The context sets are written out here,   *)
(* apart from the classification predicates of the code.                   *)
(***************************************************************************)
ApplMapContexts ==
    {"ApplianceMap", "DeviceMap", "ModelMap", "SmartMeterMap",
     "EchonetLitePropertyMap", "UnknownMap"}
ApplArrayContexts == {"AppliancesArray", "EchonetLitePropertiesArray", "UnknownArray"}
OpenEvents == {"StartArray", "StartMap"}
NotFailed == result \in {"Running", "Ok"}
SomeEntries(log) == SelectSeq(log, LAMBDA e : e = "Some")
SomeKinds(kinds) == SelectSeq(kinds, LAMBDA k : k # "None")
NoneKinds(kinds) == SelectSeq(kinds, LAMBDA k : k = "None")

C2_DeviceCallbackAtClose ==
    (schema = "devices" /\ wf /\ NotFailed) =>
        NoneKinds(CallbackKinds(emitted)) = NoneKinds(DocClosing(doc_closed))

(***************************************************************************)
(* C3.  read_devices on a well-formed document: as long as no transition   *)
(* has failed, the callbacks with the second view present are exactly the  *)
(* closings of user objects of a users array (view User) and of            *)
(* newest_events objects (view NewestEvents), one per closing, in document *)
(* order; the closing of a sensor object invokes none.                     *)
(***************************************************************************)
C3_DeviceSubRecordCallbacks ==
    (schema = "devices" /\ wf /\ NotFailed) =>
        /\ SomeKinds(CallbackKinds(emitted)) = SomeKinds(DocClosing(doc_closed))
        /\ SomeEntries(cb_log) = SomeEntries(doc_log)
        /\ doc_closed = "Sensor" => emitted = <<>>

C3_Witness ==
    /\ schema = "devices" /\ wf /\ result = "Running"
    /\ doc_closed = "NewestEvents"
    /\ CallbackKinds(emitted) = <<"NewestEvents">>
    /\ emitted[1].sub.val.temperature # <<>>

(***************************************************************************)
(* C4.  For the events StartArray, EndArray (the document [ ]) both        *)
(* operations invoke no callback and return success at the end of input.   *)
(***************************************************************************)
C4_EmptyArray ==
    doc_shape = "EmptyArray" =>
        /\ cb_log = <<>>
        /\ emitted = <<>>
        /\ IF last_event.type = "EndOfInput"
           THEN result = "Ok"
           ELSE result = "Running" /\ state = "Start"

C4_Witness == doc_shape = "EmptyArray" /\ result = "Ok" /\ cb_log = <<>>

(***************************************************************************)
(* C5.  No end-of-array event invokes the callback, and no end-of-object   *)
(* event that closes the smart_meter wrapper or a container of an unknown  *)
(* subtree does.                                                           *)
(***************************************************************************)
C5_SilentClosings ==
    [][(\/ last_event'.type = "EndArray"
        \/ /\ last_event'.type = "EndMap"
           /\ \/ state \in {"SmartMeterMap", "UnknownMap", "UnknownMapArray"}
              \/ wf' /\ doc_closed' \in {"SmartMeter", "OtherMap"})
       => emitted' = <<>>]_vars

C5_Witness ==
    /\ schema = "appliances" /\ wf /\ result = "Running"
    /\ last_event.type = "EndMap"
    /\ doc_closed = "SmartMeter"
    /\ cb_log # <<>>

(***************************************************************************)
(* C6.  The callback is invoked only while an end-of-object event is       *)
(* processed, and at most once per event.                                  *)
(***************************************************************************)
C6_CallbackOnlyAtEndMap ==
    emitted # <<>> => (last_event.type = "EndMap" /\ Len(emitted) = 1)

(***************************************************************************)
(* C7.  read_devices on a well-formed document: when a device object       *)
(* closes, the record its sub-record-absent callback showed holds the      *)
(* converted value of every recognized scalar field present in the object. *)
(***************************************************************************)
C7_DeviceRecordComplete ==
    (schema = "devices" /\ wf /\ NotFailed /\ doc_closed = "Record"
        /\ doc_observed # <<>>) =>
        \A f \in DeviceFieldNames :
            doc_fields[f] # <<>> => doc_observed[1][f] = doc_fields[f][1]

(***************************************************************************)
(* C8.  read_appliances: the context stack never holds more than 10        *)
(* entries; an open event with 10 entries on the stack returns NodeTooDeep *)
(* and changes neither the stack, the context, the pending key nor a       *)
(* record; an open event with fewer entries does not return NodeTooDeep.   *)
(***************************************************************************)
C8_StackBound ==
    /\ [](Len(state_stack) <= 10)
    /\ [][(schema = "appliances" /\ last_event'.type \in OpenEvents) =>
            IF Len(state_stack) = 10
            THEN /\ result' = "NodeTooDeep"
                 /\ emitted' = <<>>
                 /\ UNCHANGED mvars
            ELSE /\ result' = "Running"
                 /\ Len(state_stack') = Len(state_stack) + 1]_vars

C8_Witness ==
    /\ schema = "appliances"
    /\ result = "NodeTooDeep"
    /\ last_event.type = "StartMap"
    /\ Len(state_stack) = 10

(***************************************************************************)
(* C9.  read_devices: the nesting depth the machine tracks (the known      *)
(* contexts plus unknown_map_depth + unknown_array_depth) never exceeds    *)
(* the bound of 10 while the operation runs.                               *)
(***************************************************************************)
C9_DeviceDepthBound ==
    (schema = "devices" /\ result = "Running") => Depth <= 10

(***************************************************************************)
(* C10.  read_appliances: an end-of-array event in a context that is not   *)
(* an array context, and an end-of-object event in a context that is not a *)
(* map context, return UnexpectedMapArrayEnd, invoke no callback and leave *)
(* the stack and the context as they were.                                 *)
(***************************************************************************)
C10_MismatchedEnd ==
    [][(/\ schema = "appliances"
        /\ \/ last_event'.type = "EndArray" /\ state \notin ApplArrayContexts
           \/ last_event'.type = "EndMap" /\ state \notin ApplMapContexts)
       => /\ result' = "UnexpectedMapArrayEnd"
          /\ emitted' = <<>>
          /\ cb_log' = cb_log
          /\ UNCHANGED <<state, state_stack>>]_vars

C10_Witness ==
    /\ schema = "appliances"
    /\ result = "UnexpectedMapArrayEnd"
    /\ last_event.type = "EndMap"
    /\ state = "EchonetLitePropertiesArray"
    /\ Len(state_stack) = 4

(***************************************************************************)
(* C11.  read_devices on a well-formed prefix, inside an unknown subtree:  *)
(* a close event whose kind does not match the innermost open container    *)
(* returns UnexpectedMapArrayEnd.                                          *)
(***************************************************************************)
DocMismatchedClose(type) ==
    \/ type = "EndArray" /\ DocTop \notin DocArrayClasses
    \/ type = "EndMap" /\ DocTop \notin DocMapClasses

C11_DeviceMismatchedClose ==
    [][(/\ schema = "devices" /\ wf
        /\ state = "UnknownMapArray"
        /\ DocMismatchedClose(last_event'.type))
       => result' = "UnexpectedMapArrayEnd"]_vars

(***************************************************************************)
(* C12.  read_devices on a well-formed document: while an object or array  *)
(* that is a value directly inside a device object, and is not its users   *)
(* array or newest_events object, is open, the machine is in the unknown   *)
(* context, no callback and no error occur; after its outermost close the  *)
(* machine is in DeviceMap; and the device record holds the converted      *)
(* value of every scalar field the object has given so far.                *)
(***************************************************************************)
DocUnknownClasses == {"OtherMap", "OtherArray"}
DocInUnknownOfDevice ==
    /\ Len(doc_path) >= 3
    /\ doc_path[2] = "Record"
    /\ doc_path[3] \in DocUnknownClasses

C12_UnknownSubtreeSkipped ==
    (schema = "devices" /\ wf) =>
        /\ DocInUnknownOfDevice =>
              /\ result = "Running"
              /\ state = "UnknownMapArray"
              /\ emitted = <<>>
        /\ (DocTop = "Record" /\ doc_closed \in DocUnknownClasses) =>
              /\ result = "Running"
              /\ state = "DeviceMap"
              /\ emitted = <<>>
        /\ (DocTop = "Record" /\ result = "Running") =>
              \A f \in DeviceFieldNames :
                  doc_fields[f] # <<>> => device[f] = doc_fields[f][1]

C12_Witness ==
    /\ schema = "devices" /\ wf /\ result = "Running"
    /\ DocTop = "Record" /\ doc_closed = "OtherArray"
    /\ state = "DeviceMap"
    /\ node_key = "Name"
    /\ doc_fields.name = <<S_plain>> /\ device.name = S_plain

(***************************************************************************)
(* C13.  copy_string_option(s, N): under the truncate policy a value       *)
(* longer than N yields exactly its first N characters and no error; under *)
(* the reject policy a value longer than N yields StringTooLong; a value   *)
(* of at most N characters is copied unchanged under either policy.        *)
(***************************************************************************)
C13_FirstNCharacters ==
    conv_call.op = "copy_string_option" =>
        IF Len(conv_call.s) <= conv_call.n
        THEN conv_ret.err = "None" /\ conv_ret.val = conv_call.s
        ELSE IF options
             THEN /\ conv_ret.err = "None"
                  /\ conv_ret.val = SubSeq(conv_call.s, 1, conv_call.n)
             ELSE conv_ret.err = "StringTooLong"

(***************************************************************************)
(* C13, amended.  The capacity N counts bytes of UTF-8.  A value of at     *)
(* most N bytes is copied unchanged under either policy.  A value of more  *)
(* than N bytes yields StringTooLong under the reject policy; under the    *)
(* truncate policy it yields no error and the longest prefix of whole      *)
(* characters that ends before the first character that does not fit in N  *)
(* bytes: exactly the first N characters when those are one byte each.     *)
(***************************************************************************)
EncodedLen(s) ==
    LET bytes(c) == CASE c = "a" -> 1 [] c = "U+00E9" -> 2 [] c = "U+3066" -> 3
        sum[i \in 0..Len(s)] == IF i = 0 THEN 0 ELSE sum[i - 1] + bytes(s[i])
    IN  sum[Len(s)]

C13_CopyWithinByteCapacity ==
    conv_call.op = "copy_string_option" =>
        LET s == conv_call.s
            n == conv_call.n
        IN  IF EncodedLen(s) <= n
            THEN conv_ret.err = "None" /\ conv_ret.val = s
            ELSE IF options
                 THEN /\ conv_ret.err = "None"
                      /\ LET k == Len(conv_ret.val)
                         IN  /\ k < Len(s)
                             /\ conv_ret.val = SubSeq(s, 1, k)
                             /\ EncodedLen(SubSeq(s, 1, k)) <= n
                             /\ EncodedLen(SubSeq(s, 1, k + 1)) > n
                             /\ (\A i \in 1..n : i <= Len(s) => s[i] = "a") => k = n
                 ELSE conv_ret.err = "StringTooLong"

C13_Witness ==
    /\ conv_call.op = "copy_string_option"
    /\ options
    /\ conv_call.s = <<"a", "U+00E9", "a", "a">>
    /\ conv_call.n = 2
    /\ conv_ret.err = "None" /\ conv_ret.val = <<"a">>

(***************************************************************************)
(* C14.  MacAddress::from_str: six 2-digit hexadecimal octets, in upper or *)
(* lower case, separated by ':' or '-', parse to the 6 bytes whose values  *)
(* are those octets, in order.                                             *)
(***************************************************************************)
(* The value of each well-formed octet among the inputs. *)
OctetBytes ==
    {<<(<<"f", "0">>), 240>>, <<(<<"F", "0">>), 240>>, <<(<<"0", "8">>), 8>>,
     <<(<<"d", "1">>), 209>>, <<(<<"D", "1">>), 209>>, <<(<<"0", "0">>), 0>>,
     <<(<<"1", "1">>), 17>>, <<(<<"2", "2">>), 34>>}
GoodOctet(o) == \E p \in OctetBytes : p[1] = o
OctetByte(o) == (CHOOSE p \in OctetBytes : p[1] = o)[2]
MacCallWellFormed ==
    /\ \A k \in 1..6 : GoodOctet(conv_call.octets[k])
    /\ \A k \in 1..5 : conv_call.delims[k] \in {":", "-"}

C14_MacAddressParsed ==
    (conv_call.op = "MacAddress_from_str" /\ MacCallWellFormed) =>
        /\ conv_ret.err = "None"
        /\ conv_ret.val = [k \in 1..6 |-> OctetByte(conv_call.octets[k])]

C14_Witness ==
    /\ conv_call.op = "MacAddress_from_str"
    /\ conv_call.s = <<"F", "0", "-", "0", "8", "-", "d", "1", "-", "0", "0", "-",
                       "1", "1", "-", "2", "2">>
    /\ conv_ret.err = "None"
    /\ conv_ret.val = <<240, 8, 209, 0, 17, 34>>

(***************************************************************************)
(* C15.  A MAC-address string with a delimiter other than ':' and '-', or  *)
(* with a character that is no hexadecimal digit in an octet, as the value *)
(* of mac_address or bt_mac_address in a device object: the operation      *)
(* returns MacAddressParseError and invokes no callback.                   *)
(***************************************************************************)
MacKeys == {W_mac_address, W_bt_mac_address}
DocInDeviceObject ==
    \/ schema = "devices" /\ DocTop = "Record"
    \/ schema = "appliances" /\ DocTop = "Device"
BadMacValues == {StringValue(S_mac_dot), StringValue(S_mac_not_hex)}

C15_BadMacAddress ==
    [][(/\ wf /\ DocInDeviceObject /\ doc_key \in MacKeys
        /\ last_event'.type = "Value"
        /\ last_event'.value \in BadMacValues)
       => /\ result' = "MacAddressParseError"
          /\ emitted' = <<>>]_vars

C15_Witness ==
    /\ schema = "devices"
    /\ result = "MacAddressParseError"
    /\ last_event = JsonNode("Value", StringValue(S_mac_not_hex))
    /\ device.mac_address = <<200, 43, 150, 0, 17, 34>>
    /\ device.bt_mac_address = DefaultMacAddress

(***************************************************************************)
(* C16.  read_appliances: a string value of the key type directly inside   *)
(* an appliance object sets the appliance type when it is one of the 12    *)
(* literal tags; any other string returns UnexpectedEnumValue.             *)
(***************************************************************************)
TagMembers ==
    {<<(<<"A", "C">>), "AC">>,
     <<(<<"T", "V">>), "TV">>,
     <<(<<"L", "I", "G", "H", "T">>), "Light">>,
     <<(<<"I", "R">>), "IR">>,
     <<(<<"E", "L", "_", "S", "M", "A", "R", "T", "_", "M", "E", "T", "E", "R">>), "SmartMeter">>,
     <<(<<"E", "L", "_", "E", "L", "E", "C", "T", "R", "I", "C", "_", "W", "A", "T", "E", "R", "_", "H", "E", "A", "T", "E", "R">>), "ElectricWaterHeater">>,
     <<(<<"E", "L", "_", "P", "O", "W", "E", "R", "_", "D", "I", "S", "T", "_", "M", "E", "T", "E", "R">>), "PowerDistMeter">>,
     <<(<<"E", "L", "_", "E", "V", "C", "D">>), "EVCD">>,
     <<(<<"E", "L", "_", "S", "O", "L", "A", "R", "_", "P", "O", "W", "E", "R">>), "SolarPower">>,
     <<(<<"E", "L", "_", "S", "T", "O", "R", "A", "G", "E", "_", "B", "A", "T", "T", "E", "R", "Y">>), "StorageBattery">>,
     <<(<<"Q", "R", "I", "O", "_", "L", "O", "C", "K">>), "QrioLock">>,
     <<(<<"M", "O", "R", "N", "I", "N", "_", "P", "L", "U", "S">>), "MorninPlus">>}
IsTag(s) == \E p \in TagMembers : p[1] = s
TagMember(s) == (CHOOSE p \in TagMembers : p[1] = s)[2]

C16_ApplianceType ==
    [][(/\ schema = "appliances" /\ wf
        /\ DocTop = "Record" /\ doc_key = W_type
        /\ last_event'.type = "Value" /\ last_event'.value.kind = "String")
       => IF IsTag(last_event'.value.v)
          THEN /\ result' = "Running"
               /\ appliance'.type_ = TagMember(last_event'.value.v)
          ELSE /\ result' = "UnexpectedEnumValue"
               /\ emitted' = <<>>]_vars

C16_Witness ==
    /\ schema = "appliances"
    /\ result = "UnexpectedEnumValue"
    /\ last_event = JsonNode("Value", StringValue(S_type_lower))
    /\ appliance.type_ = "MorninPlus"

(***************************************************************************)
(* C17.  read_devices: a start-of-object in the newest_events context      *)
(* enters the sensor context of the pending key when that key is te, hu,   *)
(* il or mo, with no error; with any other pending key, or none, it        *)
(* returns UnknownNewestEventsType.                                        *)
(***************************************************************************)
SensorContexts ==
    {<<"Te", W_te, "NewestEventMap(Temperature)">>,
     <<"Hu", W_hu, "NewestEventMap(Humidity)">>,
     <<"Il", W_il, "NewestEventMap(Illumination)">>,
     <<"Mo", W_mo, "NewestEventMap(Motion)">>}

C17_NewestEventsType ==
    [][(/\ schema = "devices"
        /\ state = "NewestEventsMap"
        /\ last_event'.type = "StartMap")
       => /\ \A p \in SensorContexts :
                (node_key = p[1] \/ (wf /\ doc_key = p[2])) =>
                    /\ result' = "Running"
                    /\ state' = p[3]
                    /\ emitted' = <<>>
          /\ (\A p \in SensorContexts : node_key # p[1]) =>
                /\ result' = "UnknownNewestEventsType"
                /\ emitted' = <<>>
          /\ (wf /\ \A p \in SensorContexts : doc_key # p[2]) =>
                result' = "UnknownNewestEventsType"]_vars

C17_Witness ==
    /\ schema = "devices" /\ wf
    /\ state = "NewestEventMap(Motion)"
    /\ last_event.type = "StartMap"
    /\ subnode.val.temperature # <<>>
    /\ subnode.val.motion = <<DefaultSensorValue>>

(***************************************************************************)
(* C18.  Every error a transition returns is fatal: once the operation has *)
(* returned (an error, or Ok at the end of the input) no event is          *)
(* processed and no callback is invoked any more; the callbacks are those  *)
(* invoked up to the event that produced the error.                        *)
(***************************************************************************)
C18_ErrorsAreFatal ==
    [][/\ result = "Running"
       /\ result' # "Running" => cb_log' = cb_log \o LogEntries(CallbackKinds(emitted'))]_vars

C18_Witness ==
    /\ result = "StringTooLong"
    /\ ~options
    /\ last_event = JsonNode("Value", StringValue(S_long))
    /\ cb_log # <<>>

(***************************************************************************)
(* C19.  ModelNodeKey::try_from is an exact, case-sensitive match: the 30  *)
(* wire names resolve to 30 distinct members; a key event with one of them *)
(* sets the pending key to its member, and a key event with any other      *)
(* string leaves no pending key and is no error.                           *)
(***************************************************************************)
WireNameMembers ==
    {<<W_name, "Name">>,
     <<W_id, "Id">>,
     <<W_created_at, "CreatedAt">>,
     <<W_updated_at, "UpdatedAt">>,
     <<W_mac_address, "MacAddress">>,
     <<W_bt_mac_address, "BtMacAddress">>,
     <<W_serial_number, "SerialNumber">>,
     <<W_firmware_version, "FirmwareVersion">>,
     <<W_temperature_offset, "TemperatureOffset">>,
     <<W_humidity_offset, "HumidityOffset">>,
     <<W_users, "Users">>,
     <<W_nickname, "NickName">>,
     <<W_superuser, "SuperUser">>,
     <<W_newest_events, "NewestEvents">>,
     <<W_te, "Te">>,
     <<W_hu, "Hu">>,
     <<W_il, "Il">>,
     <<W_mo, "Mo">>,
     <<W_val, "Val">>,
     <<W_device, "Device">>,
     <<W_type, "Type">>,
     <<W_model, "Model">>,
     <<W_manufacturer, "Manufacturer">>,
     <<W_country, "Country">>,
     <<W_remote_name, "RemoteName">>,
     <<W_series, "Series">>,
     <<W_image, "Image">>,
     <<W_smart_meter, "SmartMeter">>,
     <<W_echonetlite_properties, "EchonetLiteProperties">>,
     <<W_epc, "Epc">>}
KeyMember(s) ==
    IF \E p \in WireNameMembers : p[1] = s
    THEN (CHOOSE p \in WireNameMembers : p[1] = s)[2]
    ELSE "NoKey"

C19_KeyLookup ==
    /\ [](Cardinality({ModelNodeKey_try_from(p[1]) : p \in WireNameMembers}) = 30)
    /\ [][(last_event'.type = "Key" /\ last_event'.value.kind = "String")
          => /\ result' = "Running"
             /\ emitted' = <<>>
             /\ node_key' = KeyMember(last_event'.value.v)]_vars

C19_Witness ==
    /\ family = "keys" /\ wf /\ result = "Running"
    /\ last_event = JsonNode("Key", StringValue(S_upper_name))
    /\ node_key = "NoKey"
    /\ state \in {"DeviceMap", "ApplianceMap"}

(***************************************************************************)
(* C20.  On a well-formed document, the open event of a recognized         *)
(* sub-record object (a user, newest_events, and in read_appliances a      *)
(* device, a model, an echonet-lite property) leaves the sub-record slot   *)
(* at the default value of that kind.                                      *)
(***************************************************************************)
SubRecordDefaults ==
    {<<"User", SubNode("User", DefaultUser)>>,
     <<"NewestEvents", SubNode("NewestEvents", DefaultNewestEvents)>>,
     <<"Device", SubNode("Device", DefaultDevice)>>,
     <<"Model", SubNode("Model", DefaultApplianceModel)>>,
     <<"EchonetLiteProperty",
       SubNode("EchonetLiteProperty", DefaultEchonetLiteProperty)>>}

C20_SubRecordReset ==
    [][(wf /\ wf' /\ last_event'.type = "StartMap") =>
          \A p \in SubRecordDefaults :
              DocTop' = p[1] => (result' = "Running" /\ subnode' = p[2])]_vars

C20_Witness ==
    /\ schema = "appliances" /\ wf /\ result = "Running"
    /\ last_event.type = "StartMap"
    /\ state = "EchonetLitePropertyMap"
    /\ cb_log = <<"Some">>
    /\ subnode = SubNode("EchonetLiteProperty", DefaultEchonetLiteProperty)

(***************************************************************************)
(* C21.  In every reachable state the discriminant of the sub-record slot  *)
(* matches the context: read_appliances in DeviceMap, ModelMap,            *)
(* EchonetLitePropertyMap holds Device, Model, EchonetLiteProperty;        *)
(* read_devices in UserMap holds User and in NewestEventsMap or a          *)
(* NewestEventMap holds NewestEvents; also after the return from an        *)
(* unknown subtree nested in a sub-record.                                 *)
(***************************************************************************)
SlotOfContext ==
    {<<"appliances", "DeviceMap", "Device">>,
     <<"appliances", "ModelMap", "Model">>,
     <<"appliances", "EchonetLitePropertyMap", "EchonetLiteProperty">>,
     <<"devices", "UserMap", "User">>,
     <<"devices", "NewestEventsMap", "NewestEvents">>,
     <<"devices", "NewestEventMap(Temperature)", "NewestEvents">>,
     <<"devices", "NewestEventMap(Humidity)", "NewestEvents">>,
     <<"devices", "NewestEventMap(Illumination)", "NewestEvents">>,
     <<"devices", "NewestEventMap(Motion)", "NewestEvents">>}
SlotAgrees ==
    \A p \in SlotOfContext :
        (schema = p[1] /\ state = p[2]) => subnode.kind = p[3]

C21_SlotMatchesContext == SlotAgrees

C21_Witness ==
    /\ schema = "appliances" /\ wf /\ result = "Running"
    /\ state = "ModelMap" /\ DocTop = "Model"
    /\ last_event.type = "EndArray" /\ doc_closed = "OtherArray"
    /\ subnode.kind = "Model"
    /\ cb_log # <<>>

(***************************************************************************)
(* C22.  In a record-map context a scalar value changes at most the one    *)
(* field that the context and the pending key select, and only when the    *)
(* value is of the primitive kind the field expects; with no pending key,  *)
(* a key that is no field of the context, or a value of another kind, no   *)
(* field of any record changes and no error is returned.                   *)
(***************************************************************************)
DeviceObjectFields ==
    {<<"Name", "name", "String">>, <<"Id", "id", "String">>,
     <<"CreatedAt", "created_at", "String">>, <<"UpdatedAt", "updated_at", "String">>,
     <<"MacAddress", "mac_address", "String">>,
     <<"BtMacAddress", "bt_mac_address", "String">>,
     <<"SerialNumber", "serial_number", "String">>,
     <<"FirmwareVersion", "firmware_version", "String">>,
     <<"TemperatureOffset", "temperature_offset", "Number">>,
     <<"HumidityOffset", "humidity_offset", "Number">>}
SensorObjectFields ==
    {<<"Val", "val", "Number">>, <<"CreatedAt", "created_at", "String">>}
(* The fields of each record-map context: pending key, field, expected kind. *)
ContextFields(sch, s) ==
    CASE sch = "devices" /\ s = "DeviceMap" -> DeviceObjectFields
      [] sch = "devices" /\ s = "UserMap" ->
             {<<"Id", "id", "String">>, <<"NickName", "nickname", "String">>,
              <<"SuperUser", "superuser", "Boolean">>}
      [] sch = "devices" /\ s \in {"NewestEventMap(Temperature)",
                                   "NewestEventMap(Humidity)",
                                   "NewestEventMap(Illumination)",
                                   "NewestEventMap(Motion)"} -> SensorObjectFields
      [] sch = "appliances" /\ s = "ApplianceMap" ->
             {<<"NickName", "nickname", "String">>, <<"Id", "id", "String">>,
              <<"Type", "type_", "String">>, <<"Image", "image", "String">>}
      [] sch = "appliances" /\ s = "DeviceMap" -> DeviceObjectFields
      [] sch = "appliances" /\ s = "ModelMap" ->
             {<<"Name", "name", "String">>, <<"Id", "id", "String">>,
              <<"Country", "country", "String">>,
              <<"Manufacturer", "manufacturer", "String">>,
              <<"RemoteName", "remote_name", "String">>,
              <<"Series", "series", "String">>, <<"Image", "image", "String">>}
      [] sch = "appliances" /\ s = "EchonetLitePropertyMap" ->
             {<<"Name", "name", "String">>, <<"Epc", "epc", "Number">>,
              <<"Val", "val", "String">>, <<"UpdatedAt", "updated_at", "String">>}
      [] OTHER -> {}
PrimitiveKind(x) == IF x.kind \in {"I32", "F32"} THEN "Number" ELSE x.kind
(* The fields the context, the pending key and the value's kind select. *)
SelectedFields(sch, s, key, value) ==
    {p[2] : p \in {q \in ContextFields(sch, s) :
                       q[1] = key /\ q[3] = PrimitiveKind(value)}}
SensorSlot(s) ==
    CASE s = "NewestEventMap(Temperature)" -> "temperature"
      [] s = "NewestEventMap(Humidity)" -> "humidity"
      [] s = "NewestEventMap(Illumination)" -> "illumination"
      [] s = "NewestEventMap(Motion)" -> "motion"
      [] OTHER -> "None"
(* The fields of the records that differ between a state and its successor:
   of the parent record in a parent context, of the sub-record otherwise; a
   change anywhere else counts as the field "elsewhere". *)
ChangedFields ==
    LET parent_context == state \in {"ApplianceMap"} \/ (schema = "devices" /\ state = "DeviceMap")
        rec == IF schema = "devices" THEN device ELSE appliance
        rec2 == IF schema = "devices" THEN device' ELSE appliance'
        g == SensorSlot(state)
    IN  IF parent_context
        THEN {f \in DOMAIN rec : rec2[f] # rec[f]}
               \cup (IF subnode' # subnode THEN {"elsewhere"} ELSE {})
        ELSE (IF device' # device \/ appliance' # appliance \/ subnode'.kind # subnode.kind
              THEN {"elsewhere"} ELSE {})
             \cup (IF g = "None" \/ schema # "devices"
                   THEN {f \in DOMAIN subnode.val : subnode'.val[f] # subnode.val[f]}
                   ELSE (IF \E h \in DOMAIN subnode.val \ {g} :
                               subnode'.val[h] # subnode.val[h]
                         THEN {"elsewhere"} ELSE {})
                        \cup (IF Len(subnode.val[g]) # 1 \/ Len(subnode'.val[g]) # 1
                              THEN {"elsewhere"}
                              ELSE {f \in DOMAIN subnode.val[g][1] :
                                       subnode'.val[g][1][f] # subnode.val[g][1][f]}))

C22_ValueSelectsOneField ==
    [][(last_event'.type = "Value" /\ ContextFields(schema, state) # {}) =>
          LET selected == SelectedFields(schema, state, node_key, last_event'.value)
          IN  /\ Cardinality(selected) <= 1
              /\ ChangedFields \subseteq selected
              /\ selected = {} => result' = "Running"]_vars

C22_Witness ==
    /\ schema = "devices" /\ wf /\ result = "Running"
    /\ state = "UserMap"
    /\ last_event = JsonNode("Value", I32Value(1))
    /\ subnode = SubNode("User", [DefaultUser EXCEPT !.superuser = TRUE])
    /\ device.name = S_plain

(***************************************************************************)
(* C23.  In every context a scalar value that matches no field of the      *)
(* context is dropped and is no error: also a value directly in an array   *)
(* (top-level, users, echonetlite_properties), in the smart_meter object,  *)
(* in a newest_events object, or in the Start context.                     *)
(***************************************************************************)
C23_UnmatchedValueDropped ==
    [][(/\ last_event'.type = "Value"
        /\ SelectedFields(schema, state, node_key, last_event'.value) = {})
       => /\ result' = "Running"
          /\ device' = device /\ appliance' = appliance /\ subnode' = subnode]_vars

(***************************************************************************)
(* C24.  After a scalar value that is processed without error, in any      *)
(* context (the unknown-subtree contexts included), there is no pending    *)
(* key, whether or not the key was recognized for the context.             *)
(***************************************************************************)
C24_ValueClearsPendingKey ==
    [][(last_event'.type = "Value" /\ result' = "Running") => node_key' = NoKey]_vars

(***************************************************************************)
(* C25.  A key event, in any context, returns no error, invokes no         *)
(* callback and leaves the context, the stack, the depth counters, the     *)
(* parent record and the sub-record slot as they were; a string key sets   *)
(* the pending key to its resolution (none when the string is no wire      *)
(* name) and a key that is no string leaves the pending key as it was.     *)
(***************************************************************************)
C25_KeyFrame ==
    [][last_event'.type = "Key" =>
          /\ result' = "Running"
          /\ emitted' = <<>> /\ cb_log' = cb_log
          /\ state' = state /\ state_stack' = state_stack
          /\ unknown_map_depth' = unknown_map_depth
          /\ unknown_array_depth' = unknown_array_depth
          /\ device' = device /\ appliance' = appliance /\ subnode' = subnode
          /\ node_key' = IF last_event'.value.kind = "String"
                         THEN KeyMember(last_event'.value.v)
                         ELSE node_key]_vars

C25_Witness ==
    /\ schema = "devices" /\ result = "Running"
    /\ state = "NewestEventsMap"
    /\ last_event = JsonNode("Key", I32Value(1))
    /\ node_key = "Te"

(***************************************************************************)
(* C26.  An open event whose context and pending key are no recognized     *)
(* combination enters the unknown-subtree context and returns no error,    *)
(* in every context and with every pending key (within the depth the       *)
(* stack holds): also an object or array opened inside a user object, a    *)
(* sensor object, the users array or the top-level array, and an array     *)
(* opened inside newest_events.                                            *)
(***************************************************************************)
(* The combinations with a transition of their own; an object opened in    *)
(* newest_events is one for every key (C17).                               *)
OpenRecognized(sch, s, type, key) ==
    \/ s = "Start" /\ type = "StartArray"
    \/ /\ sch = "appliances"
       /\ \/ s = "SmartMeterMap" /\ type = "StartArray" /\ key = "EchonetLiteProperties"
          \/ s = "AppliancesArray" /\ type = "StartMap"
          \/ s = "ApplianceMap" /\ type = "StartMap"
                /\ key \in {"Device", "Model", "SmartMeter"}
          \/ s = "EchonetLitePropertiesArray" /\ type = "StartMap"
    \/ /\ sch = "devices"
       /\ \/ s = "DevicesArray" /\ type = "StartMap"
          \/ s = "DeviceMap" /\ type = "StartArray" /\ key = "Users"
          \/ s = "DeviceMap" /\ type = "StartMap" /\ key = "NewestEvents"
          \/ s = "UsersArray" /\ type = "StartMap"
          \/ s = "NewestEventsMap" /\ type = "StartMap"
UnknownContexts == {"UnknownMap", "UnknownArray", "UnknownMapArray"}

C26_UnrecognizedOpenIsSkipped ==
    [][(/\ last_event'.type \in OpenEvents
        /\ ~OpenRecognized(schema, state, last_event'.type, node_key)
        /\ schema = "appliances" => Len(state_stack) < STATE_STACK_CAPACITY)
       => /\ result' = "Running"
          /\ state' \in UnknownContexts]_vars

(***************************************************************************)
(* C27.  No event processed in an unknown-subtree context, and no open     *)
(* event that enters one, changes the parent record or the sub-record slot *)
(* (its discriminant or its fields) or invokes the callback: only the      *)
(* stack, the depth counters, the context and the pending key may change.  *)
(***************************************************************************)
C27_UnknownSubtreeFrame ==
    [][(\/ state \in UnknownContexts
        \/ last_event'.type \in OpenEvents /\ state' \in UnknownContexts)
       => /\ device' = device /\ appliance' = appliance /\ subnode' = subnode
          /\ emitted' = <<>> /\ cb_log' = cb_log]_vars

C27_Witness ==
    /\ schema = "appliances" /\ wf /\ result = "Running"
    /\ state = "UnknownMap"
    /\ state_stack # <<>> /\ state_stack[Len(state_stack)] = "ModelMap"
    /\ last_event = JsonNode("Value", StringValue(S_plain))
    /\ subnode = SubNode("Model", [DefaultApplianceModel EXCEPT !.name = S_plain])

(***************************************************************************)
(* C28.  read_appliances returns UnexpectedParserState only when the       *)
(* discriminant of the sub-record slot does not match the context: no      *)
(* sequence of events makes it return UnexpectedParserState while the      *)
(* slot and the context agree.                                             *)
(***************************************************************************)
C28_UnexpectedParserStateIsInternal ==
    (schema = "appliances" /\ result = "UnexpectedParserState") => ~SlotAgrees

(***************************************************************************)
(* C29.  The two ways of skipping an unknown subtree agree on well-formed  *)
(* input.  For an unknown subtree under a record of the top-level array,   *)
(* with objects and arrays nested in any mix: the two counters of          *)
(* read_devices count the open unknown arrays and objects, and it is in    *)
(* the unknown context exactly while one is open and in DeviceMap exactly  *)
(* when none is; the stack of read_appliances holds one entry per open     *)
(* container, and it is in an unknown context exactly while an unknown     *)
(* container is open and in ApplianceMap exactly when none is.  So both    *)
(* return to the enclosing context at the close of the outermost unknown   *)
(* container, never earlier and never later.                               *)
(***************************************************************************)
DocOpenBelowRecord(class) ==
    Cardinality({i \in 3..Len(doc_path) : doc_path[i] = class})
DocRecordWithUnknownOnly ==
    /\ Len(doc_path) >= 2
    /\ doc_path[2] = "Record"
    /\ \A i \in 3..Len(doc_path) : doc_path[i] \in DocUnknownClasses

C29_SkipStrategiesAgree ==
    (wf /\ result = "Running" /\ DocRecordWithUnknownOnly) =>
        IF schema = "devices"
        THEN /\ unknown_array_depth = DocOpenBelowRecord("OtherArray")
             /\ unknown_map_depth = DocOpenBelowRecord("OtherMap")
             /\ state = "UnknownMapArray" <=> Len(doc_path) >= 3
             /\ state = "DeviceMap" <=> Len(doc_path) = 2
        ELSE /\ Len(state_stack) = Len(doc_path)
             /\ state = "UnknownArray" <=> DocTop = "OtherArray"
             /\ state = "UnknownMap" <=> DocTop = "OtherMap"
             /\ state = "ApplianceMap" <=> Len(doc_path) = 2

C29_Witness ==
    /\ schema = "devices" /\ wf /\ result = "Running"
    /\ doc_path = <<"Top", "Record", "OtherMap", "OtherArray", "OtherMap", "OtherArray">>
    /\ last_event.type = "EndArray"
    /\ state = "UnknownMapArray"
    /\ unknown_map_depth = 2 /\ unknown_array_depth = 2

(***************************************************************************)
(* C30.  The read_devices of lib.rs, too, skips an unrecognized nested     *)
(* object or array inside a device object whatever its shape: while the    *)
(* well-formed document is inside such a subtree the operation has not     *)
(* failed and the machine is in its unknown-subtree context, also after a  *)
(* scalar value inside the subtree; after the subtree's outermost close    *)
(* the machine is back in DeviceMap.                                       *)
(***************************************************************************)
C30_LibUnknownSubtreeSkipped ==
    (family = "lib" /\ wf) =>
        /\ DocInUnknownOfDevice =>
              /\ result = "Running"
              /\ state = "UnknownMapArray"
        /\ (DocTop = "Record" /\ doc_closed \in DocUnknownClasses) =>
              /\ result = "Running"
              /\ state = "DeviceMap"

(* What lib.rs does: a scalar inside the unknown subtree ends the operation
   with UnexpectedNode. *)
C30_LibScalarInUnknownFails ==
    /\ family = "lib" /\ wf
    /\ DocInUnknownOfDevice
    /\ last_event.type = "Value"
    /\ state = "UnknownMapArray"
    /\ result = "UnexpectedNode"

(***************************************************************************)
(* C31.  read_appliances, for any event sequence: the context is Start     *)
(* exactly when the context stack is empty; a non-empty stack has Start as *)
(* its bottom entry and nowhere else; so in every context that passes the  *)
(* container-kind check of an end event the stack is non-empty, and an     *)
(* UnexpectedMapArrayEnd is always one of the kind check, never one of a   *)
(* pop from the empty stack.                                               *)
(***************************************************************************)
C31_StartIffEmptyStack ==
    schema = "appliances" =>
        /\ (state = "Start") <=> (state_stack = <<>>)
        /\ state_stack # <<>> => state_stack[1] = "Start"
        /\ \A i \in 2..Len(state_stack) : state_stack[i] # "Start"
        /\ state \in (ApplArrayContexts \cup ApplMapContexts) => state_stack # <<>>
        /\ result = "UnexpectedMapArrayEnd" =>
              \/ last_event.type = "EndArray" /\ state \notin ApplArrayContexts
              \/ last_event.type = "EndMap" /\ state \notin ApplMapContexts

C31_Witness ==
    /\ schema = "appliances" /\ result = "Running"
    /\ last_event.type = "EndArray"
    /\ state = "Start" /\ state_stack = <<>>
    /\ cb_log # <<>>

(***************************************************************************)
(* C32.  read_appliances: every accepted open event pushes the context     *)
(* that was current, every accepted close event removes the top entry and  *)
(* makes it the context, and no other event and no refused event touches   *)
(* the stack: the stack length is the number of accepted opens less the    *)
(* number of accepted closes, and a close restores the context of just     *)
(* before its open, for known and unknown containers alike.                *)
(***************************************************************************)
C32_StackIsLifo ==
    [][schema = "appliances" =>
          LET type == last_event'.type
              accepted == result' = "Running"
          IN  /\ (accepted /\ type \in {"StartArray", "StartMap"}) =>
                    state_stack' = Append(state_stack, state)
              /\ (accepted /\ type \in {"EndArray", "EndMap"}) =>
                    /\ state_stack # <<>>
                    /\ state_stack = Append(state_stack', state')
              /\ (~accepted \/ type \notin {"StartArray", "StartMap", "EndArray", "EndMap"}) =>
                    UNCHANGED <<state, state_stack>>]_vars

C32_Witness ==
    /\ schema = "appliances" /\ result = "Running"
    /\ last_event.type = "EndArray"
    /\ state = "ModelMap"
    /\ state_stack = <<"Start", "AppliancesArray", "ApplianceMap">>

(***************************************************************************)
(* C33.  The parent record (Device in read_devices, Appliance in           *)
(* read_appliances) is the default record before the first event and is    *)
(* never reset afterwards: only a scalar value in the record's own object  *)
(* changes it, so when the next top-level record object opens every field  *)
(* keeps its value, and a field the later record does not assign still     *)
(* holds the earlier record's value when the later record's callback       *)
(* fires.                                                                  *)
(***************************************************************************)
C33_ParentRecordNeverReset ==
    /\ device = DefaultDevice /\ appliance = DefaultAppliance
    /\ [][/\ last_event'.type # "Value" => UNCHANGED <<device, appliance>>
          /\ ~(schema = "devices" /\ state = "DeviceMap") => UNCHANGED device
          /\ ~(schema = "appliances" /\ state = "ApplianceMap") => UNCHANGED appliance]_vars

(* The second device object has no name so far; the callback at the open of
   its users array shows the name of the first. *)
C33_Witness ==
    /\ schema = "devices" /\ wf /\ result = "Running"
    /\ doc_log # <<>> /\ doc_log[1] = "None"
    /\ DocTop = "Users" /\ last_event.type = "StartArray"
    /\ doc_fields.name = <<>>
    /\ emitted # <<>> /\ emitted[1].sub.kind = "None"
    /\ emitted[1].parent.name = S_plain

(***************************************************************************)
(* C34.  read_devices never panics, whatever the event sequence: in the    *)
(* NewestEventsMap context the sub-record slot holds NewestEvents, so the  *)
(* panic branch of a start-of-object there is not taken; in                *)
(* NewestEventMap(s) the slot holds NewestEvents and its reading of sensor *)
(* s is present, so the unwrap of a value there does not fail.             *)
(***************************************************************************)
C34_DevicesNeverPanics ==
    schema = "devices" =>
        /\ result # "Panic"
        /\ state = "NewestEventsMap" => subnode.kind = "NewestEvents"
        /\ state \in NewestEventMapStates =>
              /\ subnode.kind = "NewestEvents"
              /\ subnode.val[NewestEventField(state)] # <<>>

C34_Witness ==
    /\ schema = "devices" /\ result = "Running"
    /\ state = "NewestEventMap(Temperature)"
    /\ last_event = JsonNode("Value", I32Value(1))
    /\ subnode.kind = "NewestEvents"
    /\ subnode.val.temperature = <<DefaultSensorValue>>
    /\ cb_log # <<>>

(***************************************************************************)
(* C35.  read_appliances on a document whose top-level value is an object: *)
(* the start-of-object in Start enters UnknownMap; while the object is     *)
(* open the machine is in an unknown context whatever keys, values and     *)
(* containers the object holds, with one stack entry per open container,   *)
(* no callback and no error (but NodeTooDeep of an open that finds the     *)
(* stack full); after the object closes the machine is in Start with the   *)
(* stack empty and still no callback.                                      *)
(***************************************************************************)
DocInTopLevelObject == doc_path # <<>> /\ doc_path[1] = "OtherMap"

StartsWithMacAddress(s) ==
    /\ Len(s) >= 17
    /\ \A i \in 1..17 :
          IF i % 3 = 0 THEN s[i] \in {":", "-"} ELSE s[i] \in HexDigits

C36_MacAddressPrefix ==
    conv_call.op = "MacAddress_from_str" =>
        IF StartsWithMacAddress(conv_call.s)
        THEN /\ conv_ret.err = "None"
             /\ conv_ret.val = [k \in 1..6 |->
                                  16 * HexValue(conv_call.s[3 * k - 2])
                                      + HexValue(conv_call.s[3 * k - 1])]
        ELSE conv_ret = Err("MacAddressParseError")

C36_Witness ==
    /\ conv_call.op = "MacAddress_from_str"
    /\ conv_call.s = <<"f", "0", ":", "0", "8", "-", "d", "1", ":", "0", "0", "-",
                       "1", "1", ":", "2", "2", ":", "3", "3">>
    /\ conv_ret.err = "None"
    /\ conv_ret.val = <<240, 8, 209, 0, 17, 34>>

(***************************************************************************)
(* C37.  read_appliances, key epc in an echonet-lite property object: a    *)
(* number n of the 32-bit signed integer kind is stored as the unsigned    *)
(* 32-bit value n mod 2^32 (a negative n wraps to n + 2^32) with no error; *)
(* a number of another kind leaves epc as it was, with no error.           *)
(* The unsigned value is hi * 65536 + lo of its two 16-bit halves.         *)
(***************************************************************************)
IsU32(u) == u.hi \in 0..65535 /\ u.lo \in 0..65535

(* u = n mod 2^32 for a 32-bit signed n, without leaving the 32-bit range. *)
IsI32Mod2To32(u, n) ==
    /\ IsU32(u)
    /\ IF n >= 0
       THEN u.hi < 32768 /\ u.hi * 65536 + u.lo = n
       ELSE u.hi >= 32768 /\ (u.hi - 65536) * 65536 + u.lo = n

C37_EpcConversion ==
    [][(/\ schema = "appliances"
        /\ state = "EchonetLitePropertyMap"
        /\ subnode.kind = "EchonetLiteProperty"
        /\ node_key = "Epc"
        /\ last_event'.type = "Value"
        /\ IsNumber(last_event'.value))
       => /\ result' = "Running"
          /\ subnode'.kind = "EchonetLiteProperty"
          /\ IF last_event'.value.kind = "I32"
             THEN IsI32Mod2To32(subnode'.val.epc, last_event'.value.v)
             ELSE subnode'.val.epc = subnode.val.epc]_vars

C37_Witness ==
    /\ schema = "appliances" /\ wf /\ result = "Running"
    /\ state = "EchonetLitePropertyMap"
    /\ DocTop = "EchonetLiteProperty"
    /\ last_event = JsonNode("Value", I32Value(-1))
    /\ subnode.kind = "EchonetLiteProperty"
    /\ subnode.val.epc = [hi |-> 65535, lo |-> 65535]

(***************************************************************************)
(* C38.  On a well-formed event stream no stale key is used, in either     *)
(* decode operation, although a pending key survives the events of an      *)
(* unknown subtree: after a key event the pending key is the resolution of *)
(* that key; and whenever a value changes a record, or an open event       *)
(* enters a context that is selected by key, the event follows a key event *)
(* of the same object directly and the pending key is the resolution of    *)
(* that key.                                                               *)
(***************************************************************************)
KeyedContexts ==
    IF schema = "devices"
    THEN {"UsersArray", "NewestEventsMap"} \cup NewestEventMapStates
    ELSE {"DeviceMap", "ModelMap", "SmartMeterMap", "EchonetLitePropertiesArray"}

PendingKeyIsFresh == doc_key # NoDocKey /\ node_key = ModelNodeKey_try_from(doc_key)

C38_NoStaleKeyUsed ==
    [][(wf /\ wf' /\ result' = "Running") =>
          /\ doc_key' # NoDocKey => node_key' = ModelNodeKey_try_from(doc_key')
          /\ (/\ last_event'.type = "Value"
              /\ <<device, appliance, subnode>>' # <<device, appliance, subnode>>)
                => PendingKeyIsFresh
          /\ (/\ last_event'.type \in {"StartArray", "StartMap"}
              /\ state' \in KeyedContexts)
                => PendingKeyIsFresh]_vars

(* A second device object opens while the key name, left by a value inside
   an unknown subtree of the first, is still pending. *)
C38_Witness ==
    /\ schema = "devices" /\ wf /\ result = "Running"
    /\ doc_path = <<"Top", "Record">> /\ last_event.type = "StartMap"
    /\ state = "DeviceMap"
    /\ doc_key = NoDocKey /\ node_key = "Name"
    /\ device.name = <<>>

(***************************************************************************)
(* C39.  Order of the callbacks of one record, on a well-formed document.  *)
(* read_appliances: a callback with a sub-record is invoked only while an  *)
(* appliance object is open, the sub-record-absent callback only by the    *)
(* close of the appliance object, and none has been invoked for an         *)
(* appliance that is still open: so it follows every sub-record callback   *)
(* of its appliance and precedes every callback of the next.               *)
(* read_devices: when a User callback is invoked, a sub-record-absent      *)
(* callback has been invoked before it since the device object opened.     *)
(***************************************************************************)
DocRecordOpen == Len(doc_path) >= 2 /\ doc_path[2] = "Record"

C39_CallbackOrder ==
    wf =>
        IF schema = "appliances"
        THEN /\ Len(emitted) <= 1
             /\ DocRecordOpen => doc_observed = <<>>
             /\ SomeKinds(CallbackKinds(emitted)) # <<>> => DocRecordOpen
             /\ NoneKinds(CallbackKinds(emitted)) # <<>> =>
                   doc_closed = "Record" /\ doc_path = <<"Top">>
        ELSE \A i \in 1..Len(emitted) :
                 emitted[i].sub.kind = "User" =>
                     /\ DocRecordOpen
                     /\ doc_observed # <<>>
                     /\ NoneKinds(CallbackKinds(emitted)) = <<>>

(* An appliance with a device object closes: its two callbacks in order. *)
C39_Witness ==
    /\ schema = "appliances" /\ wf /\ result = "Running"
    /\ doc_closed = "Record" /\ last_event.type = "EndMap"
    /\ cb_log = <<"Some", "None">>
    /\ doc_log = <<"Some", "None">>
    /\ CallbackKinds(emitted) = <<"None">>

(***************************************************************************)
(* C40.  copy_string_possible for a capacity of N bytes: the result is a   *)
(* prefix of the input made of whole characters, its encoding is at most N *)
(* bytes long, and no longer prefix of whole characters fits in N bytes;   *)
(* so the copy ends before the first character that does not fit, however  *)
(* short the characters after it are.  In bytes: the encoding of the       *)
(* result is the start of the encoding of the input, cut where a character *)
(* starts.                                                                 *)
(***************************************************************************)
EncodedBytes(s) ==
    LET bytes(c) == CASE c = "a" -> <<97>>
                      [] c = "U+00E9" -> <<195, 169>>
                      [] c = "U+3066" -> <<227, 129, 166>>
        cat[i \in 0..Len(s)] == IF i = 0 THEN <<>> ELSE cat[i - 1] \o bytes(s[i])
    IN  cat[Len(s)]

IsContinuationByte(b) == b >= 128 /\ b < 192

C40_LongestWholeCharacterPrefix ==
    (conv_call.op = "copy_string_option" /\ options) =>
        LET s == conv_call.s
            n == conv_call.n
            r == conv_ret.val
            k == Len(r)
            in_bytes == EncodedBytes(s)
            out_bytes == EncodedBytes(r)
        IN  /\ conv_ret.err = "None"
            /\ k <= Len(s)
            /\ r = SubSeq(s, 1, k)
            /\ Len(out_bytes) <= n
            /\ \A j \in 0..Len(s) : Len(EncodedBytes(SubSeq(s, 1, j))) <= n => j <= k
            /\ k < Len(s) => Len(out_bytes) + Len(EncodedBytes(<<s[k + 1]>>)) > n
            /\ out_bytes = SubSeq(in_bytes, 1, Len(out_bytes))
            /\ Len(out_bytes) < Len(in_bytes) =>
                   ~IsContinuationByte(in_bytes[Len(out_bytes) + 1])

(* Capacity 2: the 3-byte character after "a" does not fit, and the "a"
   after it, which would, is not copied. *)
C40_Witness ==
    /\ conv_call.op = "copy_string_option"
    /\ options
    /\ conv_call.s = <<"a", "U+3066", "a">>
    /\ conv_call.n = 2
    /\ conv_ret.err = "None" /\ conv_ret.val = <<"a">>
====
